---------------------------- MODULE Spec2Model ----------------------------
(***************************************************************************)
(* A model of the bigcolor colour library: the OKLCH-founded BigColor of   *)
(* src/lib.rs with its regex parser (src/parse.rs) and conversions         *)
(* (src/color_space.rs, src/matrix_utils.rs), and the Solid/Gradient       *)
(* design of src/bigcolor.rs, src/solid.rs and src/parser/mod.rs.          *)
(*                                                                         *)
(* f32 values are modelled as binary floating-point numbers with a 24-bit  *)
(* significand: [m |-> significand, e |-> exponent] stands for m * 2^e,    *)
(* with 2^23 <= |m| < 2^24 or m = 0.  +, -, *, / and the conversions to    *)
(* and from integers round to nearest, ties to even, as IEEE 754 binary32  *)
(* does.  sqrt, cbrt, powf, atan2, sin and cos are computed by iteration   *)
(* to within a few units in the last place.  Subnormals and signed zeros   *)
(* are not modelled.  Strings are strings; the i-th character of s is       *)
(* SubSeq(s, i, i).                                                        *)
(***************************************************************************)
EXTENDS Integers, Sequences, FiniteSets, TLC

\* Then(v, G) is G(v), with v evaluated before G is applied to it, as a
\* statement of the source is evaluated before the statements after it.
Then(v, G(_)) == CASE v = v -> G(v)

(***************************************************************************)
(* f32 arithmetic                                                          *)
(***************************************************************************)

\* The exponent that marks NaN (m = 0) and the infinities (m = 1, m = -1).
SpecialExp == 2^10

F(m, e) == [m |-> m, e |-> e]
Zero == F(0, 0)
NaN == F(0, SpecialExp)
PosInf == F(1, SpecialExp)
NegInf == F(-1, SpecialExp)

IsNaN(x) == x.e = SpecialExp /\ x.m = 0
IsInf(x) == x.e = SpecialExp /\ x.m # 0
IsSpecial(x) == x.e = SpecialExp
Sgn(n) == IF n > 0 THEN 1 ELSE IF n < 0 THEN -1 ELSE 0
Abs(n) == IF n < 0 THEN -n ELSE n

\* Let(v, G) is G(v): the value v under the name G gives it.
Let(v, G(_)) == G(v)

\* The number of binary digits of n, 0 <= n < 2^31, halving the width searched.
Bits2(n) == IF n >= 2 THEN 2 ELSE n
Bits4(n) == (IF n >= 4 THEN 2 ELSE 0) + Bits2(IF n >= 4 THEN n \div 4 ELSE n)
Bits8(n) == (IF n >= 16 THEN 4 ELSE 0) + Bits4(IF n >= 16 THEN n \div 16 ELSE n)
Bits16(n) == (IF n >= 256 THEN 8 ELSE 0) + Bits8(IF n >= 256 THEN n \div 256 ELSE n)
BitLen(n) == (IF n >= 65536 THEN 16 ELSE 0) + Bits16(IF n >= 65536 THEN n \div 65536 ELSE n)

\* sgn * q * 2^e for a significand q <= 2^24 that rounding has produced
Carry(sgn, q, e) == IF q = 16777216 THEN F(sgn * 8388608, e + 1) ELSE F(sgn * q, e)

\* sgn * (q + r / 2^sh) * 2^e rounded to the integer significand, ties to even
RoundShift(sgn, q, r, half, e) ==
    Carry(sgn, IF r > half \/ (r = half /\ q % 2 = 1) THEN q + 1 ELSE q, e)

\* RoundSig for a sig of k binary digits
RoundBits(sgn, sig, e, k) ==
    IF k <= 24
    THEN F(sgn * sig * 2^(24 - k), e - (24 - k))
    ELSE RoundShift(sgn, sig \div 2^(k - 24), sig % 2^(k - 24), 2^(k - 25), e + (k - 24))

\* sgn * sig * 2^e rounded to a 24-bit significand, ties to even; sig > 0.
\* A sticky bit for digits already dropped sits in sig's lowest bit.
RoundSig(sgn, sig, e) == RoundBits(sgn, sig, e, BitLen(sig))

\* s * 2^e rounded
RoundInt(s, e) == IF s = 0 THEN Zero ELSE RoundSig(Sgn(s), Abs(s), e)

FromInt(n) == RoundInt(n, 0)
FNeg(x) == F(-x.m, x.e)
FAbs(x) == F(Abs(x.m), x.e)

\* a8 + sg * (q with the sticky bit st), times 2^e
AddSticky(a8, sg, q, st, e) == RoundInt(a8 + sg * (IF st /\ q % 2 = 0 THEN q + 1 ELSE q), e)

\* hi + lo for hi.e >= lo.e: lo is shifted right by the difference d of the
\* exponents, with three guard bits and a sticky bit
AddShift(a8, sg, l8, d, e) ==
    AddSticky(a8, sg, IF d >= 27 THEN 0 ELSE l8 \div 2^d,
              IF d >= 27 THEN TRUE ELSE l8 % 2^d # 0, e)

AddAligned(hi, lo) == AddShift(hi.m * 8, Sgn(lo.m), Abs(lo.m) * 8, hi.e - lo.e, hi.e - 3)

\* x + y
FAdd(x, y) ==
    IF IsSpecial(x) \/ IsSpecial(y)
    THEN IF IsNaN(x) \/ IsNaN(y) THEN NaN
         ELSE IF IsInf(x) /\ IsInf(y) THEN (IF x.m = y.m THEN x ELSE NaN)
         ELSE IF IsInf(x) THEN x ELSE y
    ELSE IF x.m = 0 THEN y
    ELSE IF y.m = 0 THEN x
    ELSE IF x.e >= y.e THEN AddAligned(x, y) ELSE AddAligned(y, x)

FSub(x, y) == FAdd(x, FNeg(y))

\* sgn * sig * 2^e with the sticky bit st for what is below sig
MulSig(sgn, sig, st, e) == RoundSig(sgn, IF st /\ sig % 2 = 0 THEN sig + 1 ELSE sig, e)

\* The product h * 2^24 + w, w < 2^25, cut to its leading 30 bits and a sticky bit
MulWord(sgn, h, w, e) ==
    MulSig(sgn, (h + w \div 16777216) * 64 + (w % 16777216) \div 262144,
           (w % 16777216) % 262144 # 0, e)

\* The product hh * 2^24 + mid * 2^12 + ll
MulMid(sgn, hh, mid, ll, e) == MulWord(sgn, hh + mid \div 4096, (mid % 4096) * 4096 + ll, e)

\* (a1 * 2^12 + a0) * (b1 * 2^12 + b0) in 12-bit halves
MulParts(sgn, a1, a0, b1, b0, e) == MulMid(sgn, a1 * b1, a1 * b0 + a0 * b1, a0 * b0, e)

\* x * y
FMul(x, y) ==
    IF IsSpecial(x) \/ IsSpecial(y)
    THEN IF IsNaN(x) \/ IsNaN(y) \/ x.m = 0 \/ y.m = 0 THEN NaN
         ELSE IF Sgn(x.m) = Sgn(y.m) THEN PosInf ELSE NegInf
    ELSE IF x.m = 0 \/ y.m = 0 THEN Zero
    ELSE MulParts(Sgn(x.m) * Sgn(y.m), Abs(x.m) \div 4096, Abs(x.m) % 4096,
                  Abs(y.m) \div 4096, Abs(y.m) % 4096, x.e + y.e + 18)

\* Long division: q is the quotient so far and r the remainder; n more groups
\* of six binary digits, then three more and a sticky bit.
RECURSIVE DivDigits(_, _, _, _, _, _)
DivDigits(sgn, q, r, b, e, n) ==
    IF n = 0
    THEN RoundSig(sgn, (q * 8 + (r * 8) \div b) * 2 + (IF (r * 8) % b # 0 THEN 1 ELSE 0), e)
    ELSE DivDigits(sgn, q * 64 + (r * 64) \div b, (r * 64) % b, b, e, n - 1)

\* x / y
FDiv(x, y) ==
    IF IsSpecial(x) \/ IsSpecial(y)
    THEN IF IsNaN(x) \/ IsNaN(y) \/ (IsInf(x) /\ IsInf(y)) THEN NaN
         ELSE IF IsInf(y) THEN Zero
         ELSE IF Sgn(x.m) * (IF y.m < 0 THEN -1 ELSE 1) > 0 THEN PosInf ELSE NegInf
    ELSE IF y.m = 0
    THEN IF x.m = 0 THEN NaN ELSE IF x.m > 0 THEN PosInf ELSE NegInf
    ELSE IF x.m = 0 THEN Zero
    ELSE DivDigits(Sgn(x.m) * Sgn(y.m), Abs(x.m) \div Abs(y.m), Abs(x.m) % Abs(y.m),
                   Abs(y.m), x.e - y.e - 28, 4)

\* x < y, x <= y and x == y; every comparison with NaN is false.
FLt(x, y) ==
    IF IsNaN(x) \/ IsNaN(y) THEN FALSE
    ELSE IF Sgn(x.m) # Sgn(y.m) THEN Sgn(x.m) < Sgn(y.m)
    ELSE IF x.m = 0 THEN FALSE
    ELSE IF x.m > 0 THEN x.e < y.e \/ (x.e = y.e /\ x.m < y.m)
    ELSE x.e > y.e \/ (x.e = y.e /\ x.m < y.m)
FEq(x, y) == ~IsNaN(x) /\ ~IsNaN(y) /\ x = y
FLe(x, y) == FLt(x, y) \/ FEq(x, y)
FMax(x, y) == IF IsNaN(x) THEN y ELSE IF IsNaN(y) THEN x ELSE IF FLt(x, y) THEN y ELSE x
FMin(x, y) == IF IsNaN(x) THEN y ELSE IF IsNaN(y) THEN x ELSE IF FLt(y, x) THEN y ELSE x

\* x as u8: truncation toward zero, saturating at 0 and 255, NaN to 0.
AsU8(x) ==
    IF IsNaN(x) THEN 0
    ELSE IF x.m <= 0 THEN 0
    ELSE IF x.e >= 0 THEN 255
    ELSE IF x.e <= -24 THEN 0
    ELSE LET t == x.m \div 2^(-x.e) IN IF t > 255 THEN 255 ELSE t

\* x as i32 for |x| < 2^24: truncation toward zero.
AsInt(x) ==
    IF x.m = 0 \/ x.e <= -24 THEN 0
    ELSE IF x.e >= 0 THEN x.m * 2^x.e
    ELSE Sgn(x.m) * (Abs(x.m) \div 2^(-x.e))

\* f32::round: to the nearest integer, halves away from zero.
FRound(x) ==
    IF IsSpecial(x) \/ x.e >= 0 THEN x
    ELSE IF x.e < -24 THEN Zero
    ELSE FromInt(Sgn(x.m) * (IF 2 * (Abs(x.m) % 2^(-x.e)) >= 2^(-x.e)
                             THEN Abs(x.m) \div 2^(-x.e) + 1
                             ELSE Abs(x.m) \div 2^(-x.e)))

\* f32::floor
FFloor(x) ==
    IF IsSpecial(x) \/ x.e >= 0 THEN x
    ELSE IF x.e <= -24 THEN (IF x.m < 0 THEN FromInt(-1) ELSE Zero)
    ELSE FromInt(x.m \div 2^(-x.e))

\* (r * 2^d) % b, for r < b < 2^24
RECURSIVE ModShift(_, _, _)
ModShift(r, d, b) ==
    IF d = 0 THEN r
    ELSE IF d >= 6 THEN ModShift((r * 64) % b, d - 6, b)
    ELSE ModShift((r * 2) % b, d - 1, b)

\* x % y: the remainder of the truncated division, with the sign of x; exact.
FRem(x, y) ==
    IF IsNaN(x) \/ IsNaN(y) \/ IsInf(x) \/ y.m = 0 THEN NaN
    ELSE IF IsInf(y) \/ x.m = 0 \/ x.e < y.e THEN x
    ELSE RoundInt(Sgn(x.m) * ModShift(Abs(x.m) % Abs(y.m), x.e - y.e, Abs(y.m)), y.e)

\* The restoring square root: i pairs of digits of the radicand are left.
RECURSIVE SqrtDigits(_, _, _, _)
SqrtDigits(mp, i, root, rem) ==
    IF i = 0 THEN <<root, rem>>
    ELSE LET pair  == IF i > 13 THEN (mp \div 4^(i - 14)) % 4 ELSE 0
             r4    == rem * 4 + pair
             trial == root * 4 + 1
         IN  IF r4 >= trial
             THEN SqrtDigits(mp, i - 1, root * 2 + 1, r4 - trial)
             ELSE SqrtDigits(mp, i - 1, root * 2, r4)

\* The root and the remainder rr of the radicand, times 2^e
SqrtRounded(rr, e) == RoundSig(1, rr[1] * 2 + (IF rr[2] # 0 THEN 1 ELSE 0), e)

\* f32::sqrt, correctly rounded.
FSqrt(x) ==
    IF IsNaN(x) \/ x.m < 0 THEN NaN
    ELSE IF IsInf(x) \/ x.m = 0 THEN x
    ELSE IF x.e % 2 = 1
    THEN SqrtRounded(SqrtDigits(x.m * 2, 26, 0, 0), (x.e - 27) \div 2 - 1)
    ELSE SqrtRounded(SqrtDigits(x.m, 26, 0, 0), (x.e - 26) \div 2 - 1)

Two == FromInt(2)
Three == FromInt(3)
Four == FromInt(4)
Five == FromInt(5)
Half == FDiv(FromInt(1), Two)

\* Newton's iteration for the cube root of x > 0.
RECURSIVE CbrtIter(_, _, _)
CbrtIter(x, y, n) ==
    IF n = 0 \/ y.m = 0 THEN y
    ELSE CbrtIter(x, FDiv(FAdd(FMul(Two, y), FDiv(x, FMul(y, y))), Three), n - 1)

\* f32::cbrt
FCbrt(x) ==
    IF IsSpecial(x) \/ x.m = 0 THEN x
    ELSE IF x.m < 0
    THEN FNeg(CbrtIter(FAbs(x), F(8388608, ((x.e + 26) \div 3) - 23), 8))
    ELSE CbrtIter(x, F(8388608, ((x.e + 26) \div 3) - 23), 8)

\* Newton's iteration for the fifth root of x > 0.
RECURSIVE FifthRootIter(_, _, _)
FifthRootIter(x, y, n) ==
    IF n = 0 \/ y.m = 0 THEN y
    ELSE LET y2 == FMul(y, y)
         IN  FifthRootIter(x, FDiv(FAdd(FMul(Four, y), FDiv(x, FMul(y2, y2))), Five), n - 1)

\* x.powf(2.4) for x > 0, as x^2 * (x^2)^(1/5)
Pow24(x) ==
    Then(FMul(x, x), LAMBDA x2 :
        FMul(x2, FifthRootIter(x2, F(8388608, ((x2.e + 28) \div 5) - 23), 10)))

\* x.powf(1.0 / 2.4) for x > 0, as x^(1/3) * x^(1/12)
PowInv24(x) ==
    Then(FCbrt(x), LAMBDA c : Then(FSqrt(c), LAMBDA s : FMul(c, FSqrt(s))))

\* atan(2^-i) in degrees, in units of 2^-20 degree, for i = 0 .. 27.
AtanTable ==
    <<47185920, 27855475, 14718068, 7471121, 3750058, 1876857, 938658,
      469357, 234682, 117342, 58671, 29335, 14668, 7334,
      3667, 1833, 917, 458, 229, 115, 57,
      29, 14, 7, 4, 2, 1, 0>>

\* One degree in the units of AtanTable.
DegUnit == 2^20

\* The CORDIC iteration in vectoring mode: rotates (x, y) onto the positive
\* x axis and returns the angle turned through.
RECURSIVE Vectoring(_, _, _, _)
Vectoring(x, y, z, i) ==
    IF i = 28 \/ y = 0 THEN z
    ELSE IF y > 0
    THEN Vectoring(x + y \div 2^i, y - x \div 2^i, z + AtanTable[i + 1], i + 1)
    ELSE Vectoring(x - y \div 2^i, y + x \div 2^i, z - AtanTable[i + 1], i + 1)

\* m * 2^e as an integer in units of 2^-s, truncated; 0 below, for |value| < 2^(30-s).
Fixed(x, s) ==
    LET d == x.e + s
    IN  IF x.m = 0 THEN 0
        ELSE IF d >= 0 THEN x.m * 2^d
        ELSE IF d <= -24 THEN 0
        ELSE Sgn(x.m) * (Abs(x.m) \div 2^(-d))

\* The angle in degrees of the point (xi, yi) # (0, 0) given in fixed point
Atan2Fixed(xi, yi) ==
    RoundInt(IF xi >= 0 THEN Vectoring(xi, yi, 0, 0)
             ELSE IF yi >= 0 THEN 180 * DegUnit + Vectoring(-xi, -yi, 0, 0)
             ELSE Vectoring(-xi, -yi, 0, 0) - 180 * DegUnit, -20)

\* y.atan2(x) * 180.0 / PI: the angle of (x, y) in degrees, in (-180, 180].
Atan2Deg(y, x) ==
    IF IsNaN(x) \/ IsNaN(y) THEN NaN
    ELSE IF x.m = 0 /\ y.m = 0 THEN Zero
    ELSE Let(IF x.m = 0 THEN y.e ELSE IF y.m = 0 THEN x.e
             ELSE IF x.e >= y.e THEN x.e ELSE y.e,
             LAMBDA top : Atan2Fixed(Fixed(x, 3 - top), Fixed(y, 3 - top)))

\* 2^28 divided by the gain of 28 CORDIC iterations.
CordicScale == 163008219 + 0

\* The CORDIC iteration in rotation mode: turns (x, y) through the angle z.
RECURSIVE Rotation(_, _, _, _)
Rotation(x, y, z, i) ==
    IF i = 28 THEN <<x, y>>
    ELSE IF z >= 0
    THEN Rotation(x - y \div 2^i, y + x \div 2^i, z - AtanTable[i + 1], i + 1)
    ELSE Rotation(x + y \div 2^i, y - x \div 2^i, z + AtanTable[i + 1], i + 1)

\* <<cos, sin>> from the point r the rotation reached, negated when fl
CosSinSigned(fl, r) ==
    <<RoundInt(IF fl THEN -r[1] ELSE r[1], -28), RoundInt(IF fl THEN -r[2] ELSE r[2], -28)>>

\* <<cos, sin>> of the angle z1 in [-180, 180] degrees: an angle outside
\* [-90, 90] is turned by 180 degrees and the results are negated
CosSinHalf(z1) ==
    CosSinSigned(z1 > 90 * DegUnit \/ z1 < -90 * DegUnit,
                 Rotation(CordicScale, 0,
                          IF z1 > 90 * DegUnit THEN z1 - 180 * DegUnit
                          ELSE IF z1 < -90 * DegUnit THEN z1 + 180 * DegUnit ELSE z1, 0))

\* <<cos, sin>> of the angle z0 in (-360, 360) degrees
CosSinWrapped(z0) ==
    CosSinHalf(IF z0 > 180 * DegUnit THEN z0 - 360 * DegUnit
               ELSE IF z0 < -180 * DegUnit THEN z0 + 360 * DegUnit ELSE z0)

\* <<cos, sin>> of h degrees, the (h * PI / 180.0).cos() and .sin() of the source.
CosSinDeg(h) ==
    IF IsSpecial(h) THEN <<NaN, NaN>>
    ELSE CosSinWrapped(Fixed(FRem(h, FromInt(360)), 20))

(***************************************************************************)
(* src/matrix_utils.rs and src/color_space.rs.  A decimal literal of the   *)
(* source is written as the f32 nearest to it.                             *)
(***************************************************************************)

One == FromInt(1)
F255 == FromInt(255)
F360 == FromInt(360)
F100 == FromInt(100)

\* [v . row 1, v . row 2, v . row 3], each sum taken left to right
multiply_v3_m3x3(v0, m) ==
    Then(v0, LAMBDA v : [i \in 1..3 |->
        FAdd(FAdd(FMul(v[1], m[i][1]), FMul(v[2], m[i][2])), FMul(v[3], m[i][3]))])

XYZ_TO_LMS_M ==
    <<<<F(13740916, -24), F(12143559, -25), F(-8648573, -26)>>,
          <<F(8853982, -28), F(15590846, -24), F(9702510, -28)>>,
          <<F(12932466, -28), F(8866407, -25), F(10629169, -24)>>>>

LMS_TO_XYZ_M ==
    <<<<F(10291814, -23), F(-9358583, -24), F(9441917, -25)>>,
          <<F(-10891969, -28), F(9330538, -23), F(-9624895, -27)>>,
          <<F(-10250602, -27), F(-14142969, -25), F(13312084, -23)>>>>

LMS_TO_LAB_M ==
    <<<<F(14123347, -26), F(13314697, -24), F(-8744646, -31)>>,
          <<F(16592654, -23), F(-10186254, -22), F(15119416, -25)>>,
          <<F(13907127, -29), F(13132730, -24), F(-13567328, -24)>>>>

LAB_TO_LMS_M ==
    <<<<F(8388608, -23), F(13298889, -25), F(14482345, -26)>>,
          <<F(8388608, -23), F(-14168204, -27), F(-8570362, -27)>>,
          <<F(8388608, -23), F(-12010363, -27), F(-10833766, -23)>>>>

D50_TO_D65_M ==
    <<<<F(16030184, -24), F(-12400889, -29), F(8490512, -27)>>,
          <<F(-15230872, -29), F(8472455, -23), F(11296538, -29)>>,
          <<F(13222073, -30), F(-11009960, -29), F(11159918, -23)>>>>

\* [0.96422, 1.0, 0.82521]
WHITE_D50 == <<F(16176927, -24), One, F(13844726, -24)>>

constrain_angle(angle) ==
    LET a == FRem(angle, F360)
    IN  IF FLt(a, Zero) THEN FAdd(a, F360) ELSE a

\* srgb <= 0.04045 ? srgb / 12.92 : ((srgb + 0.055) / 1.055).powf(2.4)
srgb_to_linear(srgb) ==
    IF FLe(srgb, F(10858214, -28))
    THEN FDiv(srgb, F(13547602, -20))
    ELSE Pow24(FDiv(FAdd(srgb, F(14763950, -28)), F(8849981, -23)))

\* linear <= 0.0031308 ? linear * 12.92 : 1.055 * linear.powf(1.0 / 2.4) - 0.055
\* (powf of a negative base is NaN, and NaN <= x is false)
linear_to_srgb(linear) ==
    IF FLe(linear, F(13446684, -32))
    THEN FMul(linear, F(13547602, -20))
    ELSE IF IsNaN(linear) THEN NaN
    ELSE IF IsInf(linear) THEN PosInf
    ELSE FSub(FMul(F(8849981, -23), PowInv24(linear)), F(14763950, -28))

\* The rows are 0.4124564 0.3575761 0.1804375 / 0.2126729 0.7151522 0.0721750 /
\* 0.0193339 0.1191920 0.9503041.
rgb_to_xyz_d65(r, g, b, a) ==
    LET m   == <<<<F(13839740, -25), F(11998263, -25), F(12108956, -26)>>,
          <<F(14272237, -26), F(11998263, -24), F(9687165, -27)>>,
          <<F(10379809, -29), F(15997679, -27), F(15943457, -24)>>>>
        xyz(lin) == [i \in 1..3 |->
                  FAdd(FAdd(FMul(m[i][1], lin[1]), FMul(m[i][2], lin[2])), FMul(m[i][3], lin[3]))]
    IN  Then(<<srgb_to_linear(FDiv(FromInt(r), F255)),
               srgb_to_linear(FDiv(FromInt(g), F255)),
               srgb_to_linear(FDiv(FromInt(b), F255))>>,
             LAMBDA lin : Then(xyz(lin), LAMBDA v : [x |-> v[1], y |-> v[2], z |-> v[3], a |-> a]))

\* The rows are 3.2404542 -1.5371385 -0.4985314 / -0.9692660 1.8760108 0.0415560 /
\* 0.0556434 -0.2040259 1.0572252; the channels are
\* (linear_to_srgb(v) * 255.0).round() as u8.
xyz_d65_to_rgb(xyz) ==
    LET m   == <<<<F(13591450, -22), F(-12894452, -23), F(-16727938, -25)>>,
          <<F(-16261585, -24), F(15737119, -23), F(11155104, -28)>>,
          <<F(14936661, -28), F(-13691946, -26), F(8868648, -23)>>>>
        lin == [i \in 1..3 |->
                  FAdd(FAdd(FMul(m[i][1], xyz.x), FMul(m[i][2], xyz.y)), FMul(m[i][3], xyz.z))]
        ch(v) == Then(linear_to_srgb(v), LAMBDA c : AsU8(FRound(FMul(c, F255))))
    IN  Then(lin, LAMBDA l : <<ch(l[1]), ch(l[2]), ch(l[3]), xyz.a>>)

xyz_d50_to_xyz_d65(xyz) ==
    Then(multiply_v3_m3x3(<<xyz.x, xyz.y, xyz.z>>, D50_TO_D65_M), LAMBDA v :
        [x |-> v[1], y |-> v[2], z |-> v[3], a |-> xyz.a])

powi3(x) == FMul(FMul(x, x), x)

\* EPSILON3 = 24.0 / 116.0, KAPPA = 24389.0 / 27.0
lab_to_xyz_d50(lab) ==
    LET EPSILON3 == FDiv(FromInt(24), FromInt(116))
        KAPPA    == FDiv(FromInt(24389), FromInt(27))
        g(f) == IF FLt(EPSILON3, f) THEN powi3(f)
                ELSE FDiv(FSub(FMul(FromInt(116), f), FromInt(16)), KAPPA)
        yr == IF FLt(FromInt(8), lab.l)
              THEN powi3(FDiv(FAdd(lab.l, FromInt(16)), FromInt(116)))
              ELSE FDiv(lab.l, KAPPA)
    IN  Let(FDiv(FAdd(lab.l, FromInt(16)), FromInt(116)), LAMBDA f1 :
            [x |-> FMul(g(FAdd(FDiv(lab.a, FromInt(500)), f1)), WHITE_D50[1]),
             y |-> FMul(yr, WHITE_D50[2]),
             z |-> FMul(g(FSub(f1, FDiv(lab.b, FromInt(200)))), WHITE_D50[3]),
             a |-> lab.alpha])

lch_to_lab(lch) ==
    Then(CosSinDeg(lch.h), LAMBDA cs :
        [l |-> lch.l, a |-> FMul(lch.c, cs[1]), b |-> FMul(lch.c, cs[2]), alpha |-> lch.alpha])

xyz_d65_to_oklab(xyz) ==
    LET lab(lms) ==
            multiply_v3_m3x3(<<FCbrt(lms[1]), FCbrt(lms[2]), FCbrt(lms[3])>>, LMS_TO_LAB_M)
    IN  Then(multiply_v3_m3x3(<<xyz.x, xyz.y, xyz.z>>, XYZ_TO_LMS_M), LAMBDA lms :
            Then(lab(lms), LAMBDA v : [l |-> v[1], a |-> v[2], b |-> v[3], alpha |-> xyz.a]))

oklab_to_xyz_d65(oklab) ==
    LET xyz(lms_cube) ==
            multiply_v3_m3x3(<<powi3(lms_cube[1]), powi3(lms_cube[2]), powi3(lms_cube[3])>>,
                             LMS_TO_XYZ_M)
    IN  Then(multiply_v3_m3x3(<<oklab.l, oklab.a, oklab.b>>, LAB_TO_LMS_M), LAMBDA lms_cube :
            Then(xyz(lms_cube), LAMBDA v : [x |-> v[1], y |-> v[2], z |-> v[3], a |-> oklab.alpha]))

\* c = sqrt(a^2 + b^2); h = 0 when |a| and |b| are below 1e-10, and otherwise
\* constrain_angle(b.atan2(a) * 180 / PI)
oklab_to_oklch(oklab) ==
    LET tiny == F(14411519, -57)
    IN  [l |-> oklab.l,
         c |-> Then(FAdd(FMul(oklab.a, oklab.a), FMul(oklab.b, oklab.b)), FSqrt),
         h |-> IF FLt(FAbs(oklab.a), tiny) /\ FLt(FAbs(oklab.b), tiny)
               THEN Zero
               ELSE constrain_angle(Atan2Deg(oklab.b, oklab.a)),
         alpha |-> oklab.alpha]

\* oklch_to_oklab with the sine and the cosine taken for each other
oklch_to_oklab_swapped(oklch) ==
    Then(CosSinDeg(oklch.h), LAMBDA cs :
        [l |-> oklch.l, a |-> FMul(oklch.c, cs[2]), b |-> FMul(oklch.c, cs[1]),
         alpha |-> oklch.alpha])

oklch_to_oklab(oklch) ==
    Then(CosSinDeg(oklch.h), LAMBDA cs :
        [l |-> oklch.l, a |-> FMul(oklch.c, cs[1]), b |-> FMul(oklch.c, cs[2]),
         alpha |-> oklch.alpha])

rgb_to_oklch(r, g, b, a) ==
    Then(rgb_to_xyz_d65(r, g, b, a), LAMBDA xyz :
        Then(xyz_d65_to_oklab(xyz), oklab_to_oklch))

oklab_to_rgb(oklab) == Then(oklab_to_xyz_d65(oklab), xyz_d65_to_rgb)

oklch_to_rgb(oklch) == Then(oklch_to_oklab(oklch), oklab_to_rgb)

lch_to_rgb(lch) ==
    Then(lch_to_lab(lch), LAMBDA lab :
        Then(lab_to_xyz_d50(lab), LAMBDA xyz_d50 :
            Then(xyz_d50_to_xyz_d65(xyz_d50), xyz_d65_to_rgb)))

\* NaN, a < 0 and a > 1 become 1.0
bound_alpha(a) == IF IsNaN(a) \/ FLt(a, Zero) \/ FLt(One, a) THEN One ELSE a

\* r = 255 (1 - c/100) (1 - k/100), rounded, as u8; likewise g and b
cmyk_to_rgb(cmyk) ==
    LET k == FDiv(cmyk.k, F100)
        ch(v) == AsU8(FRound(FMul(FMul(F255, FSub(One, FDiv(v, F100))), FSub(One, k))))
    IN  <<ch(cmyk.c), ch(cmyk.m), ch(cmyk.y), cmyk.a>>

\* The closure hue_to_rgb of hsl_to_rgb, for t brought into [0, 1]
hue_of(p, q, t) ==
    IF FLt(t, FDiv(One, FromInt(6))) THEN FAdd(p, FMul(FMul(FSub(q, p), FromInt(6)), t))
    ELSE IF FLt(t, FDiv(One, Two)) THEN q
    ELSE IF FLt(t, FDiv(Two, Three))
    THEN FAdd(p, FMul(FMul(FSub(q, p), FSub(FDiv(Two, Three), t)), FromInt(6)))
    ELSE p

\* The closure hue_to_rgb of hsl_to_rgb: t += 1 when t < 0, then t -= 1 when t > 1
hue_to_rgb(p, q, t0) ==
    Let(IF FLt(t0, Zero) THEN FAdd(t0, One) ELSE t0, LAMBDA t1 :
        Let(IF FLt(One, t1) THEN FSub(t1, One) ELSE t1, LAMBDA t : hue_of(p, q, t)))

\* The channels of hsl_to_rgb for s # 0
hsl_channels(h, p, q) ==
    <<AsU8(FMul(hue_to_rgb(p, q, FAdd(h, FDiv(One, Three))), F255)),
      AsU8(FMul(hue_to_rgb(p, q, h), F255)),
      AsU8(FMul(hue_to_rgb(p, q, FSub(h, FDiv(One, Three))), F255))>>

\* hsl_to_rgb for h, s and l brought into [0, 1]
hsl_unit(h, s, l) ==
    IF FEq(s, Zero)
    THEN <<AsU8(FMul(l, F255)), AsU8(FMul(l, F255)), AsU8(FMul(l, F255))>>
    ELSE Let(IF FLt(l, FDiv(One, Two)) THEN FMul(l, FAdd(One, s))
             ELSE FSub(FAdd(l, s), FMul(l, s)),
             LAMBDA q : hsl_channels(h, FSub(FMul(Two, l), q), q))

\* Converts an HSL color value to RGB: <<r, g, b>> (the alpha is 1.0).  A
\* value above 1 is taken as degrees (h) or as a percentage (s, l).
hsl_to_rgb(h0, s0, l0) ==
    hsl_unit(IF FLt(One, h0) THEN FDiv(h0, F360) ELSE h0,
             IF FLt(One, s0) THEN FDiv(s0, F100) ELSE s0,
             IF FLt(One, l0) THEN FDiv(l0, F100) ELSE l0)

\* The channels of hsv_to_rgb in the sector i % 6 (Rust's %, with the sign of i)
hsv_sector(sector, v, p, q, t) ==
    LET ch(x) == AsU8(FRound(FMul(x, F255)))
    IN  IF sector = 0 THEN <<ch(v), ch(t), ch(p)>>
        ELSE IF sector = 1 THEN <<ch(q), ch(v), ch(p)>>
        ELSE IF sector = 2 THEN <<ch(p), ch(v), ch(t)>>
        ELSE IF sector = 3 THEN <<ch(p), ch(q), ch(v)>>
        ELSE IF sector = 4 THEN <<ch(t), ch(p), ch(v)>>
        ELSE <<ch(v), ch(p), ch(q)>>

\* hsv_to_rgb for the scaled hue h = h_norm * 6.0, its floor i and f = h - i
hsv_fraction(s, v, i, f) ==
    hsv_sector(IF i >= 0 THEN i % 6 ELSE -((-i) % 6), v,
               FMul(v, FSub(One, s)),
               FMul(v, FSub(One, FMul(f, s))),
               FMul(v, FSub(One, FMul(FSub(One, f), s))))

\* hsv_to_rgb for h, s and v brought into [0, 1]; s < 0.00001 is a grey.
\* h.floor() as i32 is modelled for NaN and for |h| < 2^24.
hsv_unit(h_norm, s, v) ==
    IF FLt(s, F(10995116, -40))
    THEN <<AsU8(FRound(FMul(v, F255))), AsU8(FRound(FMul(v, F255))),
           AsU8(FRound(FMul(v, F255)))>>
    ELSE Let(FMul(h_norm, FromInt(6)), LAMBDA h :
             Let(IF IsSpecial(h) THEN 0 ELSE AsInt(FFloor(h)), LAMBDA i :
                 hsv_fraction(s, v, i, FSub(h, FromInt(i)))))

\* Converts an HSV color value to RGB: <<r, g, b>> (the alpha is 1.0)
hsv_to_rgb(h0, s0, v0) ==
    hsv_unit(IF FLt(One, h0) THEN FDiv(h0, F360) ELSE h0,
             IF FLt(One, s0) THEN FDiv(s0, F100) ELSE s0,
             IF FLt(One, v0) THEN FDiv(v0, F100) ELSE v0)

\* f32::EPSILON = 2^-23
F32_EPSILON == F(8388608, -46)

\* n.abs() - 1.0 < f32::EPSILON
is_one_point_zero(n) == FLt(FSub(FAbs(n), One), F32_EPSILON)

\* n >= 0.0 && n <= 100.0
is_percentage(n) == FLe(Zero, n) /\ FLe(n, F100)

\* Take input from [0, n] and return it as [0, 1]
bound_01(n, max) ==
    IF is_one_point_zero(n) THEN One
    ELSE Let(IF is_percentage(n) THEN FMul(FDiv(n, F100), max) ELSE n, LAMBDA value :
             FDiv(FMax(FMin(value, max), Zero), max))

\* The hue of rgb_to_hsl and of rgb_to_hsv for max # min, before h /= 6.0
hue_sextant(r, g, b, max, d) ==
    IF FEq(max, r)
    THEN FAdd(FDiv(FSub(g, b), d), IF FLt(g, b) THEN FromInt(6) ELSE Zero)
    ELSE IF FEq(max, g) THEN FAdd(FDiv(FSub(b, r), d), Two)
    ELSE IF FEq(max, b) THEN FAdd(FDiv(FSub(r, g), d), Four)
    ELSE Zero

\* h, s and l in [0, 1] of the channels r, g and b brought into [0, 1]
hsl_of_unit(r, g, b) ==
    LET max == FMax(FMax(r, g), b)
        min == FMin(FMin(r, g), b)
        l   == FDiv(FAdd(max, min), Two)
        d   == FSub(max, min)
    IN  IF FEq(max, min) THEN [h |-> Zero, s |-> Zero, l |-> l, a |-> One]
        ELSE [h |-> FDiv(hue_sextant(r, g, b, max, d), FromInt(6)),
              s |-> IF FLt(Half, l) THEN FDiv(d, FSub(FSub(Two, max), min))
                    ELSE FDiv(d, FAdd(max, min)),
              l |-> l, a |-> One]

\* Converts an RGB color to HSL: h, s and l in [0, 1]
rgb_to_hsl(r, g, b) ==
    hsl_of_unit(bound_01(FromInt(r), F255), bound_01(FromInt(g), F255),
                bound_01(FromInt(b), F255))

\* h, s and v in [0, 1] of the channels r, g and b divided by 255
hsv_of_unit(r, g, b) ==
    LET max == FMax(FMax(r, g), b)
        min == FMin(FMin(r, g), b)
        d   == FSub(max, min)
    IN  [h |-> IF FEq(max, min) THEN Zero
               ELSE FDiv(hue_sextant(r, g, b, max, d), FromInt(6)),
         s |-> IF FEq(max, Zero) THEN Zero ELSE FDiv(d, max),
         v |-> max, a |-> One]

\* Converts an RGB color value to HSV: h, s and v in [0, 1]
rgb_to_hsv(r, g, b) ==
    hsv_of_unit(FDiv(FromInt(r), F255), FDiv(FromInt(g), F255), FDiv(FromInt(b), F255))

D65_TO_D50_M ==
    <<<<F(8790672, -23), F(12319507, -29), F(-13473384, -28)>>,
          <<F(15906309, -29), F(16616732, -24), F(-9166426, -29)>>,
          <<F(-9924639, -30), F(16165389, -30), F(12614357, -24)>>>>

\* adapt_xyz from WHITE_D65 to WHITE_D50
xyz_d65_to_xyz_d50(xyz) ==
    Then(multiply_v3_m3x3(<<xyz.x, xyz.y, xyz.z>>, D65_TO_D50_M), LAMBDA v :
        [x |-> v[1], y |-> v[2], z |-> v[3], a |-> xyz.a])

\* EPSILON = 216.0 / 24389.0, KAPPA = 24389.0 / 27.0
xyz_d50_to_lab(xyz) ==
    LET EPSILON == FDiv(FromInt(216), FromInt(24389))
        KAPPA   == FDiv(FromInt(24389), FromInt(27))
        f(value) == IF FLt(EPSILON, value) THEN FCbrt(value)
                    ELSE FDiv(FAdd(FMul(KAPPA, value), FromInt(16)), FromInt(116))
    IN  Then(<<f(FDiv(xyz.x, WHITE_D50[1])), f(FDiv(xyz.y, WHITE_D50[2])),
               f(FDiv(xyz.z, WHITE_D50[3]))>>, LAMBDA v :
            [l |-> FSub(FMul(FromInt(116), v[2]), FromInt(16)),
             a |-> FMul(FromInt(500), FSub(v[1], v[2])),
             b |-> FMul(FromInt(200), FSub(v[2], v[3])),
             alpha |-> xyz.a])

\* c = sqrt(a^2 + b^2); h = 0 when |a| and |b| are below 1e-10, and otherwise
\* constrain_angle(b.atan2(a) * 180 / PI)
lab_to_lch(lab) ==
    LET tiny == F(14411519, -57)
    IN  [l |-> lab.l,
         c |-> Then(FAdd(FMul(lab.a, lab.a), FMul(lab.b, lab.b)), FSqrt),
         h |-> IF FLt(FAbs(lab.a), tiny) /\ FLt(FAbs(lab.b), tiny)
               THEN Zero
               ELSE constrain_angle(Atan2Deg(lab.b, lab.a)),
         alpha |-> lab.alpha]

rgb_to_lch(r, g, b, a) ==
    Then(rgb_to_xyz_d65(r, g, b, a), LAMBDA xyz_d65 :
        Then(xyz_d65_to_xyz_d50(xyz_d65), LAMBDA xyz_d50 :
            Then(xyz_d50_to_lab(xyz_d50), lab_to_lch)))

\* cmyk_of_unit without the case k == 1.0
cmyk_of_unit_unguarded(r, g, b, a) ==
    LET k == FSub(One, FMax(FMax(r, g), b))
        ink(v) == FDiv(FSub(FSub(One, v), k), FSub(One, k))
    IN  [c |-> FMul(ink(r), F100), m |-> FMul(ink(g), F100), y |-> FMul(ink(b), F100),
         k |-> FMul(k, F100), a |-> a]

\* c, m, y and k in percent of the channels divided by 255
cmyk_of_unit(r, g, b, a) ==
    LET k == FSub(One, FMax(FMax(r, g), b))
        ink(v) == IF FEq(k, One) THEN Zero ELSE FDiv(FSub(FSub(One, v), k), FSub(One, k))
    IN  [c |-> FMul(ink(r), F100), m |-> FMul(ink(g), F100), y |-> FMul(ink(b), F100),
         k |-> FMul(k, F100), a |-> a]

rgb_to_cmyk(r, g, b, a) ==
    cmyk_of_unit(FDiv(FromInt(r), F255), FDiv(FromInt(g), F255), FDiv(FromInt(b), F255), a)

(***************************************************************************)
(* Strings and regular expressions.  The regex crate's patterns used by    *)
(* src/parse.rs are sequences of items: a character set repeated lo..hi    *)
(* times (greedy), an optional non-capturing group, and the two ends of a  *)
(* capture group.  All of the source's patterns are anchored by ^ and $.   *)
(***************************************************************************)

Ch(s, i) == SubSeq(s, i, i)
Digit == {"0", "1", "2", "3", "4", "5", "6", "7", "8", "9"}
HexDigit == Digit \cup {"a", "b", "c", "d", "e", "f"}
WhiteSpace == {" ", "\t", "\n", "\r"}
Upper == "ABCDEFGHIJKLMNOPQRSTUVWXYZ"
Lower == "abcdefghijklmnopqrstuvwxyz"
HexChars == "0123456789abcdef"

Least(S) == CHOOSE i \in S : \A j \in S : i <= j
Greatest(S) == CHOOSE i \in S : \A j \in S : i >= j

\* The least i >= from with Ch(alphabet, i) = c, or 0.
IndexOf(alphabet, c, from) ==
    LET hits == {i \in from..Len(alphabet) : Ch(alphabet, i) = c}
    IN  IF hits = {} THEN 0 ELSE Least(hits)

\* str::to_lowercase, on ASCII
RECURSIVE to_lowercase(_)
to_lowercase(s) ==
    IF s = "" THEN ""
    ELSE IF Len(s) = 1
    THEN LET k == IndexOf(Upper, s, 1) IN IF k = 0 THEN s ELSE Ch(Lower, k)
    ELSE LET half == Len(s) \div 2
         IN  to_lowercase(SubSeq(s, 1, half)) \o to_lowercase(SubSeq(s, half + 1, Len(s)))

\* The length of the longest run of characters of cs in s from position i.
RunLen(s, i, cs) ==
    LET stops == {j \in i..Len(s) : Ch(s, j) \notin cs}
    IN  IF i > Len(s) THEN 0 ELSE IF stops = {} THEN Len(s) + 1 - i ELSE Least(stops) - i

trim_start(s) == SubSeq(s, 1 + RunLen(s, 1, WhiteSpace), Len(s))

trim_end(s) ==
    LET keep == {j \in 1..Len(s) : Ch(s, j) \notin WhiteSpace}
    IN  IF keep = {} THEN "" ELSE SubSeq(s, 1, Greatest(keep))

\* str::trim
trim(s) == trim_end(trim_start(s))

\* Repetition without an upper limit.
Many == 2^10

Item(t, cs, lo, hi, k, sub) == [t |-> t, cs |-> cs, lo |-> lo, hi |-> hi, k |-> k, sub |-> sub]
Rep(cs, lo, hi) == <<Item("set", cs, lo, hi, 0, <<>>)>>
Opt(sub) == <<Item("opt", {}, 0, 0, 0, sub)>>
Cap(k, sub) == <<Item("open", {}, 0, 0, k, <<>>)>> \o sub \o <<Item("close", {}, 0, 0, k, <<>>)>>
Lit(str) == [i \in 1..Len(str) |-> Item("set", {Ch(str, i)}, 1, 1, 0, <<>>)]

\* The positions at which a match of the items that starts at a position of
\* the set from can end.
RECURSIVE Ends(_, _, _)
Ends(items, s, from) ==
    IF from = {} \/ Len(items) = 0 THEN from
    ELSE IF Len(items) = 1
    THEN LET it == items[1]
         IN  IF it.t = "set"
             THEN UNION {LET run == RunLen(s, i, it.cs)
                             top == IF run < it.hi THEN run ELSE it.hi
                         IN  {i + n : n \in it.lo..top} : i \in from}
             ELSE IF it.t = "opt" THEN from \cup Ends(it.sub, s, from)
             ELSE from
    ELSE LET half == Len(items) \div 2
         IN  Then(Ends(SubSeq(items, 1, half), s, from),
                  LAMBDA mid : Ends(SubSeq(items, half + 1, Len(items)), s, mid))

\* The items match s from position i to its end.
Matches(items, s, i) == (Len(s) + 1) \in Ends(items, s, {i})

\* The capture groups of the match the regex crate reports (leftmost-first:
\* every repetition takes as much as lets the rest match, an optional group is
\* taken when it can be).  st is the position reached, the starts of the open
\* groups and the groups captured; after is what follows the items in the
\* pattern.  caps[k] is <<text>> for a group that took part in the match and
\* <<>> for one that did not.
RECURSIVE Captures(_, _, _, _)
Captures(items, after, s, st) ==
    IF Len(items) = 0 THEN st
    ELSE IF Len(items) = 1
    THEN LET it == items[1]
         IN  IF it.t = "set"
             THEN LET run == RunLen(s, st.i, it.cs)
                      top == IF run < it.hi THEN run ELSE it.hi
                      n   == Greatest({k \in it.lo..top : Matches(after, s, st.i + k)})
                  IN  [st EXCEPT !.i = st.i + n]
             ELSE IF it.t = "opt"
             THEN IF Matches(it.sub \o after, s, st.i)
                  THEN Captures(it.sub, after, s, st)
                  ELSE st
             ELSE IF it.t = "open"
             THEN [st EXCEPT !.starts[it.k] = st.i]
             ELSE [st EXCEPT !.caps[it.k] = <<SubSeq(s, st.starts[it.k], st.i - 1)>>]
    ELSE LET half == Len(items) \div 2
             tail == SubSeq(items, half + 1, Len(items))
         IN  Then(Captures(SubSeq(items, 1, half), tail \o after, s, st),
                  LAMBDA mid : Captures(tail, after, s, mid))

\* Regex::captures: <<>> for None, and otherwise <<caps>>.
captures(re, s) ==
    IF Matches(re, s, 1)
    THEN <<Captures(re, <<>>, s, [i |-> 1, starts |-> [k \in 1..5 |-> 0],
                                  caps |-> [k \in 1..5 |-> <<>>]]).caps>>
    ELSE <<>>

\* caps.get(k).map_or(default, |m| m.as_str())
get(caps, k, default) == IF caps[k] = <<>> THEN default ELSE caps[k][1]

\* The value of a string of decimal digits, or limit if it is limit or more.
RECURSIVE DecimalValue(_, _, _)
DecimalValue(s, acc, limit) ==
    IF s = "" THEN acc
    ELSE LET v == acc * 10 + (IndexOf(HexChars, Head(s), 1) - 1)
         IN  DecimalValue(Tail(s), IF v > limit THEN limit ELSE v, limit)

AllIn(s, cs) == \A i \in 1..Len(s) : Ch(s, i) \in cs

\* str::parse::<u8>().unwrap_or(0): a sign-less string of digits that is at
\* most 255, and 0 for every other string.
parse_u8(s) ==
    IF s # "" /\ AllIn(s, Digit) /\ DecimalValue(s, 0, 256) <= 255
    THEN DecimalValue(s, 0, 256)
    ELSE 0

\* The value of the last hex digit of s alone
hex_u8_low_digit(s) ==
    IF s = "" \/ ~AllIn(s, HexDigit) \/ Len(s) > 2 THEN 0
    ELSE IndexOf(HexChars, Ch(s, Len(s)), 1) - 1

\* u8::from_str_radix(s, 16).unwrap_or(0) for a string of hex digits
hex_u8(s) ==
    IF s = "" \/ ~AllIn(s, HexDigit) \/ Len(s) > 2 THEN 0
    ELSE IF Len(s) = 1 THEN IndexOf(HexChars, s, 1) - 1
    ELSE (IndexOf(HexChars, Ch(s, 1), 1) - 1) * 16 + IndexOf(HexChars, Ch(s, 2), 1) - 1

RECURSIVE StripLeadingZeros(_)
StripLeadingZeros(s) == IF s # "" /\ Head(s) = "0" THEN StripLeadingZeros(Tail(s)) ELSE s

RECURSIVE StripTrailingZeros(_)
StripTrailingZeros(s) ==
    IF s # "" /\ Ch(s, Len(s)) = "0" THEN StripTrailingZeros(SubSeq(s, 1, Len(s) - 1)) ELSE s

\* The decimal exponent after the "e" of a number: <<>> when it is not
\* [+-]digits, and else the exponent, which is kept within -99..99
parse_exponent(s) ==
    LET signed == s # "" /\ Head(s) \in {"-", "+"}
        digits == IF signed THEN Tail(s) ELSE s
    IN  IF digits = "" \/ ~AllIn(digits, Digit) THEN <<>>
        ELSE <<(IF Head(s) = "-" THEN -1 ELSE 1) * DecimalValue(digits, 0, 99)>>

\* The f32 nearest to n * 10^k, for n < 2^24 and k in -9..9 with n * 10^k
\* below 2^31: an integer, or the quotient of two integers that are f32
scaled(n, k) ==
    IF n = 0 THEN Zero
    ELSE IF k >= 0 THEN FromInt(n * 10^(IF k > 9 THEN 9 ELSE k))
    ELSE FDiv(FromInt(n), FromInt(10^(IF k < -9 THEN 9 ELSE -k)))

\* The value of the decimal digits[.digits] times 10^ex: <<>> when the
\* string is not such a decimal with a digit in it
parse_decimal(body, ex) ==
    LET dot  == IndexOf(body, ".", 1)
        ip   == IF dot = 0 THEN body ELSE SubSeq(body, 1, dot - 1)
        fp   == IF dot = 0 THEN "" ELSE SubSeq(body, dot + 1, Len(body))
    IN  IF ~AllIn(ip, Digit) \/ ~AllIn(fp, Digit) \/ Len(ip) + Len(fp) = 0
        THEN <<>>
        ELSE Let(StripTrailingZeros(fp), LAMBDA frac :
                 <<scaled(DecimalValue(StripLeadingZeros(ip \o frac), 0, 10^9),
                          ex - Len(frac))>>)

\* The value of a string without its sign
parse_unsigned(body, lower) ==
    IF lower \in {"inf", "infinity"} THEN <<PosInf>>
    ELSE IF lower = "nan" THEN <<NaN>>
    ELSE Let(IndexOf(lower, "e", 1), LAMBDA e :
             IF e = 0 THEN parse_decimal(body, 0)
             ELSE Let(parse_exponent(SubSeq(body, e + 1, Len(body))), LAMBDA ex :
                      IF ex = <<>> THEN <<>> ELSE parse_decimal(SubSeq(body, 1, e - 1), ex[1])))

\* str::parse::<f32>(): <<>> for Err, <<value>> for Ok.  The strings it takes
\* are [+-]digits[.digits][e[+-]digits] with a digit before the exponent,
\* and [+-]inf, [+-]infinity and [+-]nan in either case of the letters.  The
\* value is the f32 nearest to the decimal for up to seven significant
\* digits and a decimal exponent from -9 to 9.
parse_f32(s) ==
    Let(IF s # "" /\ Head(s) \in {"-", "+"} THEN Tail(s) ELSE s, LAMBDA body :
        Let(parse_unsigned(body, to_lowercase(body)), LAMBDA v :
            IF v = <<>> THEN <<>> ELSE <<IF Head(s) = "-" THEN FNeg(v[1]) ELSE v[1]>>))

\* s.parse::<f32>().unwrap_or(default)
parse_f32_or(s, d) == Let(parse_f32(s), LAMBDA r : IF r = <<>> THEN d ELSE r[1])

(***************************************************************************)
(* src/parse.rs                                                            *)
(***************************************************************************)

\* names(): the pairs <<name, hex>> of the map
names ==
    {
     <<"aliceblue", "f0f8ff">>, <<"antiquewhite", "faebd7">>, <<"aqua", "0ff">>,
     <<"aquamarine", "7fffd4">>, <<"azure", "f0ffff">>, <<"beige", "f5f5dc">>,
     <<"bisque", "ffe4c4">>, <<"black", "000">>, <<"blanchedalmond", "ffebcd">>,
     <<"blue", "00f">>, <<"blueviolet", "8a2be2">>, <<"brown", "a52a2a">>,
     <<"burlywood", "deb887">>, <<"burntsienna", "ea7e5d">>, <<"cadetblue", "5f9ea0">>,
     <<"chartreuse", "7fff00">>, <<"chocolate", "d2691e">>, <<"coral", "ff7f50">>,
     <<"cornflowerblue", "6495ed">>, <<"cornsilk", "fff8dc">>, <<"crimson", "dc143c">>,
     <<"cyan", "0ff">>, <<"darkblue", "00008b">>, <<"darkcyan", "008b8b">>,
     <<"darkgoldenrod", "b8860b">>, <<"darkgray", "a9a9a9">>, <<"darkgreen", "006400">>,
     <<"darkgrey", "a9a9a9">>, <<"darkkhaki", "bdb76b">>, <<"darkmagenta", "8b008b">>,
     <<"darkolivegreen", "556b2f">>, <<"darkorange", "ff8c00">>,
     <<"darkorchid", "9932cc">>, <<"darkred", "8b0000">>, <<"darksalmon", "e9967a">>,
     <<"darkseagreen", "8fbc8f">>, <<"darkslateblue", "483d8b">>,
     <<"darkslategray", "2f4f4f">>, <<"darkslategrey", "2f4f4f">>,
     <<"darkturquoise", "00ced1">>, <<"darkviolet", "9400d3">>, <<"deeppink", "ff1493">>,
     <<"deepskyblue", "00bfff">>, <<"dimgray", "696969">>, <<"dimgrey", "696969">>,
     <<"dodgerblue", "1e90ff">>, <<"firebrick", "b22222">>, <<"floralwhite", "fffaf0">>,
     <<"forestgreen", "228b22">>, <<"fuchsia", "f0f">>, <<"gainsboro", "dcdcdc">>,
     <<"ghostwhite", "f8f8ff">>, <<"gold", "ffd700">>, <<"goldenrod", "daa520">>,
     <<"gray", "808080">>, <<"green", "008000">>, <<"greenyellow", "adff2f">>,
     <<"grey", "808080">>, <<"honeydew", "f0fff0">>, <<"hotpink", "ff69b4">>,
     <<"indianred", "cd5c5c">>, <<"indigo", "4b0082">>, <<"ivory", "fffff0">>,
     <<"khaki", "f0e68c">>, <<"lavender", "e6e6fa">>, <<"lavenderblush", "fff0f5">>,
     <<"lawngreen", "7cfc00">>, <<"lemonchiffon", "fffacd">>, <<"lightblue", "add8e6">>,
     <<"lightcoral", "f08080">>, <<"lightcyan", "e0ffff">>,
     <<"lightgoldenrodyellow", "fafad2">>, <<"lightgray", "d3d3d3">>,
     <<"lightgreen", "90ee90">>, <<"lightgrey", "d3d3d3">>, <<"lightpink", "ffb6c1">>,
     <<"lightsalmon", "ffa07a">>, <<"lightseagreen", "20b2aa">>,
     <<"lightskyblue", "87cefa">>, <<"lightslategray", "789">>,
     <<"lightslategrey", "789">>, <<"lightsteelblue", "b0c4de">>,
     <<"lightyellow", "ffffe0">>, <<"lime", "0f0">>, <<"limegreen", "32cd32">>,
     <<"linen", "faf0e6">>, <<"magenta", "f0f">>, <<"maroon", "800000">>,
     <<"mediumaquamarine", "66cdaa">>, <<"mediumblue", "0000cd">>,
     <<"mediumorchid", "ba55d3">>, <<"mediumpurple", "9370db">>,
     <<"mediumseagreen", "3cb371">>, <<"mediumslateblue", "7b68ee">>,
     <<"mediumspringgreen", "00fa9a">>, <<"mediumturquoise", "48d1cc">>,
     <<"mediumvioletred", "c71585">>, <<"midnightblue", "191970">>,
     <<"mintcream", "f5fffa">>, <<"mistyrose", "ffe4e1">>, <<"moccasin", "ffe4b5">>,
     <<"navajowhite", "ffdead">>, <<"navy", "000080">>, <<"oldlace", "fdf5e6">>,
     <<"olive", "808000">>, <<"olivedrab", "6b8e23">>, <<"orange", "ffa500">>,
     <<"orangered", "ff4500">>, <<"orchid", "da70d6">>, <<"palegoldenrod", "eee8aa">>,
     <<"palegreen", "98fb98">>, <<"paleturquoise", "afeeee">>,
     <<"palevioletred", "db7093">>, <<"papayawhip", "ffefd5">>, <<"peachpuff", "ffdab9">>,
     <<"peru", "cd853f">>, <<"pink", "ffc0cb">>, <<"plum", "dda0dd">>,
     <<"powderblue", "b0e0e6">>, <<"purple", "800080">>, <<"rebeccapurple", "663399">>,
     <<"red", "f00">>, <<"rosybrown", "bc8f8f">>, <<"royalblue", "4169e1">>,
     <<"saddlebrown", "8b4513">>, <<"salmon", "fa8072">>, <<"sandybrown", "f4a460">>,
     <<"seagreen", "2e8b57">>, <<"seashell", "fff5ee">>, <<"sienna", "a0522d">>,
     <<"silver", "c0c0c0">>, <<"skyblue", "87ceeb">>, <<"slateblue", "6a5acd">>,
     <<"slategray", "708090">>, <<"slategrey", "708090">>, <<"snow", "fffafa">>,
     <<"springgreen", "00ff7f">>, <<"steelblue", "4682b4">>, <<"tan", "d2b48c">>,
     <<"teal", "008080">>, <<"thistle", "d8bfd8">>, <<"tomato", "ff6347">>,
     <<"turquoise", "40e0d0">>, <<"violet", "ee82ee">>, <<"wheat", "f5deb3">>,
     <<"white", "fff">>, <<"whitesmoke", "f5f5f5">>, <<"yellow", "ff0">>,
     <<"yellowgreen", "9acd32">>}

\* \s*, \s+, \d+, \d*
S0 == Rep(WhiteSpace, 0, Many)
S1 == Rep(WhiteSpace, 1, Many)
D1 == Rep(Digit, 1, Many)
D0 == Rep(Digit, 0, Many)
\* \d+(?:\.\d+)?  and  -?\d+(?:\.\d+)?  and  \d*\.?\d+
Num == D1 \o Opt(Lit(".") \o D1)
SNum == Rep({"-"}, 0, 1) \o Num
Dec == D0 \o Rep({"."}, 0, 1) \o D1
\* [01]?\.?\d*  and  [01]?\.?\d+
A0 == Rep({"0", "1"}, 0, 1) \o Rep({"."}, 0, 1) \o D0
A1 == Rep({"0", "1"}, 0, 1) \o Rep({"."}, 0, 1) \o D1
\* \s*,\s*  and  \s*,?\s*  and  \s*/\s*  and  name\s*\(\s*  and  \s*\)
Comma == S0 \o Lit(",") \o S0
OptComma == S0 \o Rep({","}, 0, 1) \o S0
Slash == S0 \o Lit("/") \o S0
Fn(name) == Lit(name) \o S0 \o Lit("(") \o S0
End == S0 \o Lit(")")
\* (?:,\s*(alpha))?  as the capture group k
OptAlpha(k) == Opt(Lit(",") \o S0 \o Cap(k, A1))
Hx(k, n) == Cap(k, Rep(HexDigit, n, n))
Pct(k) == Cap(k, Num) \o Lit("%")

\* The patterns of string_input_to_object, by the names of the source.
Patterns ==
    [HEX_3 |-> Rep({"#"}, 0, 1) \o Hx(1, 1) \o Hx(2, 1) \o Hx(3, 1),
     HEX_6 |-> Rep({"#"}, 0, 1) \o Hx(1, 2) \o Hx(2, 2) \o Hx(3, 2),
     HEX_4 |-> Rep({"#"}, 0, 1) \o Hx(1, 1) \o Hx(2, 1) \o Hx(3, 1) \o Hx(4, 1),
     HEX_8 |-> Rep({"#"}, 0, 1) \o Hx(1, 2) \o Hx(2, 2) \o Hx(3, 2) \o Hx(4, 2),
     RGB |-> Fn("rgb") \o Cap(1, D1) \o Comma \o Cap(2, D1) \o Comma \o Cap(3, D1) \o End,
     RGB_PERCENT |-> Fn("rgb") \o Pct(1) \o Comma \o Pct(2) \o Comma \o Pct(3) \o End,
     RGBA |-> Fn("rgba") \o Cap(1, D1) \o Comma \o Cap(2, D1) \o Comma \o Cap(3, D1)
                \o Comma \o Cap(4, A0) \o End,
     RGBA_PERCENT |-> Fn("rgba") \o Pct(1) \o Comma \o Pct(2) \o Comma \o Pct(3)
                \o Comma \o Cap(4, A0) \o End,
     HSL |-> Fn("hsl") \o Cap(1, Num) \o Comma \o Pct(2) \o Comma \o Pct(3) \o End,
     HSL_SPACE |-> Cap(1, Num) \o S1 \o Pct(2) \o S1 \o Pct(3),
     HSLA |-> Fn("hsla") \o Cap(1, Num) \o Comma \o Pct(2) \o Comma \o Pct(3)
                \o Comma \o Cap(4, A0) \o End,
     HSV |-> Fn("hsv") \o Cap(1, D1) \o Comma \o Cap(2, D1) \o Lit("%") \o Comma
                \o Cap(3, D1) \o Lit("%") \o End,
     HSVA |-> Fn("hsva") \o Cap(1, D1) \o Comma \o Cap(2, D1) \o Lit("%") \o Comma
                \o Cap(3, D1) \o Lit("%") \o Comma \o Cap(4, A0) \o End,
     HSB |-> Fn("hsb") \o Cap(1, D1) \o Comma \o Cap(2, D1) \o Lit("%") \o Comma
                \o Cap(3, D1) \o Lit("%") \o End,
     HSBA |-> Fn("hsba") \o Cap(1, D1) \o Comma \o Cap(2, D1) \o Lit("%") \o Comma
                \o Cap(3, D1) \o Lit("%") \o Comma \o Cap(4, A0) \o End,
     LAB |-> Fn("lab") \o Cap(1, Num) \o OptComma \o Cap(2, SNum) \o OptComma
                \o Cap(3, SNum) \o S0 \o OptAlpha(4) \o End,
     LAB_WITH_SLASH |-> Fn("lab") \o Cap(1, Num) \o OptComma \o Cap(2, SNum) \o OptComma
                \o Cap(3, SNum) \o Slash \o Cap(4, A1) \o End,
     LCH |-> Fn("lch") \o Cap(1, Num) \o OptComma \o Cap(2, Num) \o OptComma
                \o Cap(3, Num) \o S0 \o OptAlpha(4) \o End,
     LCH_WITH_SLASH |-> Fn("lch") \o Cap(1, Num) \o OptComma \o Cap(2, Num) \o OptComma
                \o Cap(3, Num) \o Slash \o Cap(4, A1) \o End,
     OKLAB |-> Fn("oklab") \o Pct(1) \o OptComma \o Cap(2, SNum) \o OptComma
                \o Cap(3, SNum) \o S0 \o OptAlpha(4) \o End,
     OKLAB_WITH_SLASH |-> Fn("oklab") \o Pct(1) \o OptComma \o Cap(2, SNum) \o OptComma
                \o Cap(3, SNum) \o Slash \o Cap(4, A1) \o End,
     OKLCH |-> Fn("oklch") \o Pct(1) \o OptComma \o Cap(2, Num) \o OptComma
                \o Cap(3, Num) \o S0 \o OptAlpha(4) \o End,
     OKLCH_WITH_SLASH |-> Fn("oklch") \o Pct(1) \o OptComma \o Cap(2, Num) \o OptComma
                \o Cap(3, Num) \o Slash \o Cap(4, A1) \o End,
     OKLCH_DECIMAL |-> Fn("oklch") \o Cap(1, Dec) \o S1 \o Cap(2, Dec) \o S1
                \o Cap(3, Num) \o S0 \o OptAlpha(4) \o End,
     OKLCH_DECIMAL_WITH_SLASH |-> Fn("oklch") \o Cap(1, Dec) \o S1 \o Cap(2, Dec) \o S1
                \o Cap(3, Num) \o Slash \o Cap(4, A1) \o End,
     CMYK |-> Fn("cmyk") \o Pct(1) \o Comma \o Pct(2) \o Comma \o Pct(3) \o Comma
                \o Pct(4) \o S0 \o OptAlpha(5) \o End,
     CMYK_WITH_SLASH |-> Fn("cmyk") \o Pct(1) \o Comma \o Pct(2) \o Comma \o Pct(3) \o Comma
                \o Pct(4) \o Slash \o Cap(5, A1) \o End]

\* str::trim_start_matches('#')
RECURSIVE trim_hash(_)
trim_hash(s) == IF s # "" /\ Head(s) = "#" THEN trim_hash(Tail(s)) ELSE s

\* Helper function to parse hex values: <<>> for None, <<<<r, g, b>>>> for Some
parse_hex(hex0) ==
    LET hex == trim_hash(hex0)
        two(i) == Ch(hex, i) \o Ch(hex, i)
    IN  IF Len(hex) = 3 /\ AllIn(hex, HexDigit \cup {"A", "B", "C", "D", "E", "F"})
        THEN <<<<hex_u8(to_lowercase(two(1))), hex_u8(to_lowercase(two(2))),
                 hex_u8(to_lowercase(two(3)))>>>>
        ELSE IF Len(hex) = 6 /\ AllIn(hex, HexDigit \cup {"A", "B", "C", "D", "E", "F"})
        THEN <<<<hex_u8(to_lowercase(SubSeq(hex, 1, 2))), hex_u8(to_lowercase(SubSeq(hex, 3, 4))),
                 hex_u8(to_lowercase(SubSeq(hex, 5, 6)))>>>>
        ELSE <<>>

ColorInput(t, v) == [t |-> t, v |-> v]

\* caps.get(k).map_or(dstr, |m| m.as_str()).parse::<f32>().unwrap_or(d)
f32_of(caps, k, dstr, d) == parse_f32_or(get(caps, k, dstr), d)
u8_of(caps, k) == parse_u8(get(caps, k, "0"))
\* (pct * 2.55).round() as u8
pct_u8(pct) == AsU8(FRound(FMul(pct, F(10695475, -22))))

\* The regexes in the order in which string_input_to_object tries them
Branches ==
    <<"HEX_3", "HEX_6", "HEX_4", "HEX_8", "RGB", "RGB_PERCENT", "RGBA", "RGBA_PERCENT",
      "HSL", "HSL_SPACE", "HSLA", "HSV", "HSVA", "LAB", "LAB_WITH_SLASH", "LCH",
      "LCH_WITH_SLASH", "OKLAB", "OKLAB_WITH_SLASH", "OKLCH", "OKLCH_WITH_SLASH",
      "OKLCH_DECIMAL", "OKLCH_DECIMAL_WITH_SLASH", "CMYK", "CMYK_WITH_SLASH", "HSB", "HSBA">>

\* The ColorInput the branch of the regex b makes of its captures c, of which
\* f1..f3 are the first three read as f32 and alpha is the alpha
branch_values(b, c, f1, f2, f3, alpha) ==
    LET dbl(k) == hex_u8(get(c, k, "") \o get(c, k, ""))
        hex(k) == hex_u8(get(c, k, ""))
    IN  IF b = "HEX_3" THEN ColorInput("HEX", <<dbl(1), dbl(2), dbl(3)>>)
        ELSE IF b = "HEX_6" THEN ColorInput("HEX", <<hex(1), hex(2), hex(3)>>)
        ELSE IF b = "HEX_4"
        THEN ColorInput("HEX8", <<dbl(1), dbl(2), dbl(3), FDiv(FromInt(dbl(4)), F255)>>)
        ELSE IF b = "HEX_8"
        THEN ColorInput("HEX8", <<hex(1), hex(2), hex(3), FDiv(FromInt(hex(4)), F255)>>)
        ELSE IF b \in {"RGB", "RGBA"}
        THEN ColorInput(b, <<u8_of(c, 1), u8_of(c, 2), u8_of(c, 3)>>
                           \o IF b = "RGB" THEN <<>> ELSE <<alpha>>)
        ELSE IF b \in {"RGB_PERCENT", "RGBA_PERCENT"}
        THEN ColorInput(IF b = "RGB_PERCENT" THEN "RGB" ELSE "RGBA",
                        <<pct_u8(f1), pct_u8(f2), pct_u8(f3)>>
                        \o IF b = "RGB_PERCENT" THEN <<>> ELSE <<alpha>>)
        ELSE IF b \in {"HSL", "HSL_SPACE", "HSLA", "HSV", "HSB", "HSVA", "HSBA"}
        THEN ColorInput(CASE b \in {"HSL", "HSL_SPACE"} -> "HSL"
                          [] b = "HSLA" -> "HSLA"
                          [] b \in {"HSV", "HSB"} -> "HSV"
                          [] OTHER -> "HSVA",
                        <<FDiv(f1, F360), FDiv(f2, F100), FDiv(f3, F100)>>
                        \o IF b \in {"HSLA", "HSVA", "HSBA"} THEN <<alpha>> ELSE <<>>)
        ELSE IF b \in {"CMYK", "CMYK_WITH_SLASH"}
        THEN ColorInput("CMYK", <<f1, f2, f3, f32_of(c, 4, "0", Zero), alpha>>)
        ELSE ColorInput(CASE b \in {"LAB", "LAB_WITH_SLASH"} -> "LAB"
                          [] b \in {"LCH", "LCH_WITH_SLASH"} -> "LCH"
                          [] b \in {"OKLAB", "OKLAB_WITH_SLASH"} -> "OKLAB"
                          [] OTHER -> "OKLCH",
                        <<IF b \in {"OKLAB", "OKLAB_WITH_SLASH", "OKLCH", "OKLCH_WITH_SLASH"}
                          THEN FDiv(f1, F100) ELSE f1, f2, f3, alpha>>)

branch_input(b, c) ==
    branch_values(b, c, f32_of(c, 1, "0", Zero), f32_of(c, 2, "0", Zero),
                  f32_of(c, 3, "0", Zero),
                  f32_of(c, IF b \in {"CMYK", "CMYK_WITH_SLASH"} THEN 5 ELSE 4, "1.0", One))

\* The branch of the first regex, in the order of Branches, that matches
first_branch(color, hits) ==
    IF hits = {} THEN <<>>
    ELSE Then(captures(Patterns[Branches[Least(hits)]], color)[1],
              LAMBDA c : <<branch_input(Branches[Least(hits)], c)>>)

\* The named colour with the name color, if there is one with a hex value
\* that parse_hex takes
named_input(named) ==
    IF named = {} THEN <<>>
    ELSE Let(parse_hex((CHOOSE p \in named : TRUE)[2]), LAMBDA rgb :
             IF rgb = <<>> THEN <<>> ELSE <<ColorInput("NAME", rgb[1])>>)

\* string_input_to_object on the trimmed, lower-cased string: the names, then
\* "transparent", then the regexes in their order
string_object(color) ==
    Let(named_input({p \in names : p[1] = color}), LAMBDA n :
        IF n # <<>> THEN n
        ELSE IF color = "transparent" THEN <<ColorInput("RGBA", <<0, 0, 0, Zero>>)>>
        ELSE first_branch(color, {i \in 1..Len(Branches) :
                                     Matches(Patterns[Branches[i]], color, 1)}))

\* Parse a string input into a ColorInput object: <<>> for None, <<input>> for
\* Some; the string is trimmed and lower-cased first
\* string_input_to_object without to_lowercase()
string_input_to_object_cased(color0) == Then(trim(color0), string_object)

string_input_to_object(color0) == Then(to_lowercase(trim(color0)), string_object)

\* RGBInput::default()
RGBInputDefault == [r |-> 0, g |-> 0, b |-> 0, a |-> One, ok |-> FALSE, format |-> "INVALID"]

\* The match of input_to_rgb on the ColorInput of kind t with the values v:
\* the channels, the alpha before it is bounded, and the format
input_channels(t, v) ==
    IF t \in {"RGB", "RGBA", "HEX", "HEX8", "NAME"}
    THEN <<v, IF t \in {"RGBA", "HEX8"} THEN v[4] ELSE One, IF t = "RGBA" THEN "RGB" ELSE t>>
    ELSE IF t \in {"HSL", "HSLA"}
    THEN <<hsl_to_rgb(v[1], v[2], v[3]), IF t = "HSL" THEN One ELSE v[4], "HSL">>
    ELSE IF t \in {"HSV", "HSVA"}
    THEN <<hsv_to_rgb(v[1], v[2], v[3]), IF t = "HSV" THEN One ELSE v[4], "HSV">>
    ELSE IF t = "LAB"
    THEN Then(lab_to_xyz_d50([l |-> v[1], a |-> v[2], b |-> v[3], alpha |-> v[4]]),
              LAMBDA xyz_d50 : Then(xyz_d50_to_xyz_d65(xyz_d50), LAMBDA xyz_d65 :
                  Then(xyz_d65_to_rgb(xyz_d65), LAMBDA c : <<c, c[4], "LAB">>)))
    ELSE IF t = "LCH"
    THEN Then(lch_to_rgb([l |-> v[1], c |-> v[2], h |-> v[3], alpha |-> v[4]]),
              LAMBDA c : <<c, c[4], "LCH">>)
    ELSE IF t = "OKLAB"
    THEN Then(oklab_to_rgb([l |-> v[1], a |-> v[2], b |-> v[3], alpha |-> v[4]]),
              LAMBDA c : <<c, c[4], "OKLAB">>)
    ELSE IF t = "OKLCH"
    THEN Then(oklch_to_rgb([l |-> v[1], c |-> v[2], h |-> v[3], alpha |-> v[4]]),
              LAMBDA c : <<c, c[4], "OKLCH">>)
    ELSE Then(cmyk_to_rgb([c |-> v[1], m |-> v[2], y |-> v[3], k |-> v[4], a |-> v[5]]),
              LAMBDA c : <<c, c[4], "CMYK">>)

\* The RGBInput of the ColorInput of kind t with the values v
color_input_to_rgb(t, v) ==
    Then(input_channels(t, v), LAMBDA x :
        [r |-> x[1][1], g |-> x[1][2], b |-> x[1][3], a |-> bound_alpha(x[2]), ok |-> TRUE,
         format |-> x[3]])

\* Given a string, convert that input to RGB
input_to_rgb(color) ==
    Then(string_input_to_object(color), LAMBDA o :
        IF o = <<>> THEN RGBInputDefault ELSE color_input_to_rgb(o[1].t, o[1].v))

(***************************************************************************)
(* format!("{}", x): the Display of integers and of f32                    *)
(***************************************************************************)

\* The decimal digits of n >= 0, padded with zeros to the width k.
RECURSIVE Padded(_, _)
Padded(n, k) == IF k = 0 THEN "" ELSE Padded(n \div 10, k - 1) \o Ch(HexChars, (n % 10) + 1)

\* The least number k of decimals, up to 7, for which the decimal nearest to
\* a >= 0 with k decimals parses back to a.
RECURSIVE Decimals(_, _)
Decimals(a, k) ==
    IF k >= 7 \/ FDiv(FRound(FMul(a, FromInt(10^k))), FromInt(10^k)) = a THEN k
    ELSE Decimals(a, k + 1)

\* f32's Display: the shortest decimal that parses back to x, without an
\* exponent; "NaN", "inf" and "-inf".  Modelled for |x| < 2^24 / 10^k, where
\* k <= 7 is the number of decimals needed.
display_f32(x) ==
    IF IsNaN(x) THEN "NaN"
    ELSE IF IsInf(x) THEN (IF x.m > 0 THEN "inf" ELSE "-inf")
    ELSE LET a == FAbs(x)
             k == Decimals(a, 0)
             n == AsInt(FRound(FMul(a, FromInt(10^k))))
         IN  (IF x.m < 0 THEN "-" ELSE "") \o ToString(n \div 10^k)
             \o (IF k = 0 THEN "" ELSE "." \o Padded(n % 10^k, k))

(***************************************************************************)
(* src/lib.rs: the BigColor whose state is an OKLCH colour                 *)
(***************************************************************************)

OKLCH(l, c, h, alpha) == [l |-> l, c |-> c, h |-> h, alpha |-> alpha]

\* impl Default for BigColor
default ==
    [oklch |-> OKLCH(Zero, Zero, Zero, One), original_input |-> "", format |-> "INVALID",
     ok |-> FALSE]

\* BigColor::new
new(color_str) ==
    IF color_str = "" THEN default
    ELSE Then(input_to_rgb(color_str), LAMBDA rgb :
             IF ~rgb.ok THEN default
             ELSE Then(rgb_to_oklch(rgb.r, rgb.g, rgb.b, rgb.a), LAMBDA oklch :
                      [oklch |-> oklch, original_input |-> color_str,
                       format |-> rgb.format, ok |-> rgb.ok]))

is_valid(color) == color.ok

get_original_input(color) == color.original_input

\* from_string without its test of is_valid: Ok of whatever new made
from_string_unchecked(input) == [ok |-> TRUE, color |-> new(input), err |-> ""]

\* BigColor::from_string: Ok(color), or Err("Invalid color: " + the original input)
from_string(input) ==
    LET color == new(input)
    IN  IF is_valid(color) THEN [ok |-> TRUE, color |-> color, err |-> ""]
        ELSE [ok |-> FALSE, color |-> default,
              err |-> "Invalid color: " \o color.original_input]

set_alpha(color, value) == [color EXCEPT !.oklch.alpha = bound_alpha(value)]

to_rgb(color) == oklch_to_rgb(color.oklch)

\* lighten without .min(1.0).max(0.0)
lighten_unclamped(color, amount) == [color EXCEPT !.oklch.l = FAdd(@, FDiv(amount, F100))]

lighten(color, amount) ==
    [color EXCEPT !.oklch.l = FMax(FMin(FAdd(@, FDiv(amount, F100)), One), Zero)]

\* Each channel is (c as f32 - (255.0 * -(amount / 100.0))).round().max(0.0).min(255.0) as u8
brighten(color, amount) ==
    LET up(c) == AsU8(FMin(FMax(FRound(FSub(FromInt(c),
                          FMul(F255, FNeg(FDiv(amount, F100))))), Zero), F255))
    IN  Then(oklch_to_rgb(color.oklch), LAMBDA rgb :
            Then(rgb_to_oklch(up(rgb[1]), up(rgb[2]), up(rgb[3]), rgb[4]), LAMBDA oklch :
                [color EXCEPT !.oklch = oklch]))

darken(color, amount) ==
    [color EXCEPT !.oklch.l = FMax(FMin(FSub(@, FDiv(amount, F100)), One), Zero)]

desaturate(color, amount) == [color EXCEPT !.oklch.c = FMax(FSub(@, FDiv(amount, F100)), Zero)]

saturate(color, amount) == [color EXCEPT !.oklch.c = FAdd(@, FDiv(amount, F100))]

greyscale(color) == [color EXCEPT !.oklch.c = Zero]

spin(color, amount) ==
    LET h == FRem(FAdd(color.oklch.h, amount), F360)
    IN  [color EXCEPT !.oklch.h = IF FLt(h, Zero) THEN FAdd(h, F360) ELSE h]

\* The loop of analogous: n more colours after the hue h
RECURSIVE analogous_loop(_, _, _, _)
analogous_loop(color, h, part, n) ==
    IF n = 0 THEN <<>>
    ELSE LET h1 == FRem(FAdd(h, part), F360)
         IN  <<[color EXCEPT !.oklch.h = h1]>> \o analogous_loop(color, h1, part, n - 1)

\* Option<usize>: <<>> is None and <<n>> is Some(n)
unwrap_or(o, d) == IF o = <<>> THEN d ELSE o[1]

\* BigColor::analogous for results >= 1 (for results = 0 the bound results - 1
\* of its loop underflows; see the action Analogous)
analogous_of(color, results, slices) ==
    LET part == FDiv(F360, FromInt(slices))
        h == FRem(FAdd(FSub(color.oklch.h, FDiv(FMul(part, FromInt(results)), Two)),
                       FromInt(720)), F360)
    IN  <<color>> \o analogous_loop(color, h, part, results - 1)

analogous(color, results, slices) ==
    analogous_of(color, unwrap_or(results, 6), unwrap_or(slices, 30))

complement(color) == [color EXCEPT !.oklch.h = FRem(FAdd(@, FromInt(180)), F360)]

\* The loop of monochromatic: n more colours from the lightness l
RECURSIVE monochromatic_loop(_, _, _, _)
monochromatic_loop(color, l, step, n) ==
    IF n = 0 THEN <<>>
    ELSE <<[color EXCEPT !.oklch.l = FMin(l, One)]>>
         \o monochromatic_loop(color, FAdd(l, step), step, n - 1)

monochromatic_of(color, results) ==
    monochromatic_loop(color, Zero, FDiv(One, FromInt(results)), results)

monochromatic(color, results) == monochromatic_of(color, unwrap_or(results, 6))

split_complement(color) ==
    <<color,
      [color EXCEPT !.oklch.h = FRem(FAdd(color.oklch.h, FromInt(72)), F360)],
      [color EXCEPT !.oklch.h = FRem(FAdd(color.oklch.h, FromInt(216)), F360)]>>

\* polyad without the push of the receiver: its loop alone
polyad_without_receiver(color, number) ==
    LET step == FDiv(F360, FromInt(number))
    IN  [i \in 1..(number - 1) |->
            [color EXCEPT !.oklch.h =
                FRem(FAdd(color.oklch.h, FMul(FromInt(i), step)), F360)]]

\* BigColor::polyad for number >= 1 (polyad(0) panics; see the action Polyad)
polyad(color, number) ==
    LET step == FDiv(F360, FromInt(number))
    IN  <<color>> \o
        [i \in 1..(number - 1) |->
            [color EXCEPT !.oklch.h =
                FRem(FAdd(color.oklch.h, FMul(FromInt(i), step)), F360)]]

triad(color) == polyad(color, 3)

tetrad(color) == polyad(color, 4)

\* format!("rgba({},{},{},{})", r, g, b, a) handed to new
from_rgb(r, g, b, a) ==
    Then("rgba(" \o ToString(r) \o "," \o ToString(g) \o "," \o ToString(b) \o ","
         \o display_f32(a) \o ")", new)

from_hsl(h, s, l, a) ==
    Then(hsl_to_rgb(FDiv(h, F360), s, l), LAMBDA rgb : from_rgb(rgb[1], rgb[2], rgb[3], a))

from_hsv(h, s, v, a) ==
    Then(hsv_to_rgb(FDiv(h, F360), s, v), LAMBDA rgb : from_rgb(rgb[1], rgb[2], rgb[3], a))

from_lch(l, c, h, a) ==
    Then(lch_to_rgb([l |-> l, c |-> c, h |-> h, alpha |-> a]),
         LAMBDA rgb : from_rgb(rgb[1], rgb[2], rgb[3], rgb[4]))

\* from_oklch without color.format = ColorFormat::OKLCH
from_oklch_unmarked(l, c, h, a) == [default EXCEPT !.oklch = OKLCH(l, c, h, a), !.ok = TRUE]

from_oklch(l, c, h, a) == [default EXCEPT !.oklch = OKLCH(l, c, h, a), !.ok = TRUE, !.format = "OKLCH"]

from_cmyk(c, m, y, k, a) ==
    Then(cmyk_to_rgb([c |-> c, m |-> m, y |-> y, k |-> k, a |-> a]), LAMBDA rgb :
        Then(rgb_to_oklch(rgb[1], rgb[2], rgb[3], rgb[4]), LAMBDA oklch :
            [oklch |-> oklch,
             original_input |-> "cmyk(" \o display_f32(c) \o "%, " \o display_f32(m) \o "%, "
                                \o display_f32(y) \o "%, " \o display_f32(k) \o "%)",
             format |-> "CMYK", ok |-> TRUE]))

(***************************************************************************)
(* Hex strings: rgb_to_hex and rgba_to_hex of src/color_space.rs, and the  *)
(* SolidColor of src/solid.rs                                              *)
(***************************************************************************)

\* format!("{:02x}", n) for a byte n
hex2(n) == Ch(HexChars, (n \div 16) + 1) \o Ch(HexChars, (n % 16) + 1)

\* The digits of some channel are a pair of equal digits
SomePair(hex) == \E i \in 1..Len(hex) : Ch(hex[i], 1) = Ch(hex[i], 2)

\* The digits of every channel are a pair of equal digits
Pairs(hex) == \A i \in 1..Len(hex) : Ch(hex[i], 1) = Ch(hex[i], 2)

\* The first digit of every channel
RECURSIVE Firsts(_)
Firsts(hex) == IF hex = <<>> THEN "" ELSE Ch(Head(hex), 1) \o Firsts(Tail(hex))

\* hex.join("")
RECURSIVE Join(_)
Join(hex) == IF hex = <<>> THEN "" ELSE Head(hex) \o Join(Tail(hex))

rgb_to_hex(r, g, b, allow_3_char) ==
    LET hex == <<hex2(r), hex2(g), hex2(b)>>
    IN  IF allow_3_char /\ Pairs(hex) THEN Firsts(hex) ELSE Join(hex)

rgba_to_hex(r, g, b, a, allow_4_char) ==
    LET alpha_byte == AsU8(FRound(FMul(a, F255)))
        hex == <<hex2(r), hex2(g), hex2(b), hex2(alpha_byte)>>
    IN  IF allow_4_char /\ Pairs(hex) THEN Firsts(hex) ELSE Join(hex)

\* SolidColor::from_rgba8: each channel is c as f32 / 255.0
from_rgba8(r, g, b, a) ==
    [r |-> FDiv(FromInt(r), F255), g |-> FDiv(FromInt(g), F255),
     b |-> FDiv(FromInt(b), F255), a |-> FDiv(FromInt(a), F255)]

\* SolidColor::to_rgba8: each channel is (c * 255.0 + 0.5) as u8
to_rgba8(self) ==
    LET ch(c) == AsU8(FAdd(FMul(c, F255), FDiv(One, Two)))
    IN  <<ch(self.r), ch(self.g), ch(self.b), ch(self.a)>>

\* to_hex_string without its test of the alpha byte: always eight digits
to_hex_string_with_alpha(self) ==
    LET c == to_rgba8(self)
    IN  "#" \o hex2(c[1]) \o hex2(c[2]) \o hex2(c[3]) \o hex2(c[4])

\* SolidColor::to_hex_string: eight digits when the alpha byte is below 255
to_hex_string(self) ==
    LET c == to_rgba8(self)
    IN  IF c[4] < 255
        THEN "#" \o hex2(c[1]) \o hex2(c[2]) \o hex2(c[3]) \o hex2(c[4])
        ELSE "#" \o hex2(c[1]) \o hex2(c[2]) \o hex2(c[3])

(***************************************************************************)
(* src/lib.rs: the conversions of a BigColor and its strings               *)
(***************************************************************************)

\* (self.oklch.alpha - 1.0).abs() < f32::EPSILON
is_opaque(color) == FLt(FAbs(FSub(color.oklch.alpha, One)), F32_EPSILON)

\* (x * 100.0).round() / 100.0
hundredths(x) == FDiv(FRound(FMul(x, F100)), F100)

\* format!("{}", x.round() as i32)
display_i32(x) == ToString(AsInt(FRound(x)))

\* format!("{}", v) for a v rounded from x: a zero rounded from a negative x
\* is -0.0, written "-0"
display_rounded(x, v) == IF v = Zero /\ FLt(x, Zero) THEN "-0" ELSE display_f32(v)

\* BigColor::to_hsv: the hue in degrees
to_hsv(color) ==
    Then(oklch_to_rgb(color.oklch), LAMBDA rgb :
        Let(rgb_to_hsv(rgb[1], rgb[2], rgb[3]), LAMBDA hsv :
            [h |-> FMul(hsv.h, F360), s |-> hsv.s, v |-> hsv.v, a |-> color.oklch.alpha]))

\* BigColor::to_hsl: the hue in degrees, of the channels divided by 255
to_hsl(color) ==
    Then(oklch_to_rgb(color.oklch), LAMBDA rgb :
        Let(hsl_of_unit(FDiv(FromInt(rgb[1]), F255), FDiv(FromInt(rgb[2]), F255),
                        FDiv(FromInt(rgb[3]), F255)), LAMBDA hsl :
            [h |-> FMul(hsl.h, F360), s |-> hsl.s, l |-> hsl.l, a |-> color.oklch.alpha]))

\* "name(h, s%, x%)" for an alpha of one, "namea(h, s%, x%, alpha)" otherwise
hue_string(color, name, h, s, x) ==
    IF is_opaque(color)
    THEN name \o "(" \o display_i32(h) \o ", " \o display_i32(FMul(s, F100)) \o "%, "
         \o display_i32(FMul(x, F100)) \o "%)"
    ELSE name \o "a(" \o display_i32(h) \o ", " \o display_i32(FMul(s, F100)) \o "%, "
         \o display_i32(FMul(x, F100)) \o "%, "
         \o display_f32(hundredths(color.oklch.alpha)) \o ")"

to_hsv_string(color) == Then(to_hsv(color), LAMBDA hsv : hue_string(color, "hsv", hsv.h, hsv.s, hsv.v))

to_hsl_string(color) == Then(to_hsl(color), LAMBDA hsl : hue_string(color, "hsl", hsl.h, hsl.s, hsl.l))

to_hsb_string(color) == Then(to_hsv(color), LAMBDA hsv : hue_string(color, "hsb", hsv.h, hsv.s, hsv.v))

\* "name(x y z)" for an alpha of one, "name(x y z / alpha)" otherwise
space_string(color, name, x, y, z) ==
    IF is_opaque(color)
    THEN name \o "(" \o x \o " " \o y \o " " \o z \o ")"
    ELSE name \o "(" \o x \o " " \o y \o " " \o z \o " / " \o display_f32(color.oklch.alpha) \o ")"

to_oklch_string(color) ==
    space_string(color, "oklch",
                 display_f32(FMul(hundredths(color.oklch.l), F100)) \o "%",
                 display_rounded(color.oklch.c, hundredths(color.oklch.c)),
                 display_rounded(color.oklch.h, FRound(color.oklch.h)))

to_oklab(color) == oklch_to_oklab(color.oklch)

to_oklab_string(color) ==
    Then(to_oklab(color), LAMBDA oklab :
        space_string(color, "oklab",
                     display_f32(FMul(hundredths(oklab.l), F100)) \o "%",
                     display_rounded(oklab.a, hundredths(oklab.a)),
                     display_rounded(oklab.b, hundredths(oklab.b))))

to_lch(color) ==
    Then(oklch_to_rgb(color.oklch), LAMBDA rgb :
        rgb_to_lch(rgb[1], rgb[2], rgb[3], color.oklch.alpha))

to_lch_string(color) ==
    Then(to_lch(color), LAMBDA lch :
        space_string(color, "lch", display_rounded(lch.l, FRound(lch.l)),
                     display_rounded(lch.c, FRound(lch.c)),
                     display_rounded(lch.h, FRound(lch.h))))

to_lab(color) ==
    Then(oklch_to_rgb(color.oklch), LAMBDA rgb :
        Then(rgb_to_xyz_d65(rgb[1], rgb[2], rgb[3], color.oklch.alpha), LAMBDA xyz_d65 :
            Then(xyz_d65_to_xyz_d50(xyz_d65), xyz_d50_to_lab)))

to_lab_string(color) ==
    Then(to_lab(color), LAMBDA lab :
        space_string(color, "lab", display_rounded(lab.l, FRound(lab.l)),
                     display_rounded(lab.a, FRound(lab.a)),
                     display_rounded(lab.b, FRound(lab.b))))

to_hex(color, allow_3_char) ==
    Then(oklch_to_rgb(color.oklch), LAMBDA rgb : rgb_to_hex(rgb[1], rgb[2], rgb[3], allow_3_char))

\* BigColor::to_hex_string
hex_string(color, allow_3_char) == "#" \o to_hex(color, allow_3_char)

to_hex8(color, allow_4_char) ==
    Then(oklch_to_rgb(color.oklch), LAMBDA rgb :
        rgba_to_hex(rgb[1], rgb[2], rgb[3], color.oklch.alpha, allow_4_char))

to_hex8_string(color, allow_4_char) == "#" \o to_hex8(color, allow_4_char)

to_rgb_string(color) ==
    Then(to_rgb(color), LAMBDA rgb :
        IF is_opaque(color)
        THEN "rgb(" \o ToString(rgb[1]) \o ", " \o ToString(rgb[2]) \o ", " \o ToString(rgb[3])
             \o ")"
        ELSE "rgba(" \o ToString(rgb[1]) \o ", " \o ToString(rgb[2]) \o ", "
             \o ToString(rgb[3]) \o ", " \o display_f32(hundredths(rgb[4])) \o ")")

\* Each channel is (bound_01(c as f32, 255.0) * 100.0).round()
to_percentage_rgb(color) ==
    LET pct(c) == FRound(FMul(bound_01(FromInt(c), F255), F100))
    IN  Then(to_rgb(color), LAMBDA rgb : <<pct(rgb[1]), pct(rgb[2]), pct(rgb[3]), rgb[4]>>)

to_percentage_rgb_string(color) ==
    Then(to_percentage_rgb(color), LAMBDA prgb :
        IF is_opaque(color)
        THEN "rgb(" \o display_f32(prgb[1]) \o "%, " \o display_f32(prgb[2]) \o "%, "
             \o display_f32(prgb[3]) \o "%)"
        ELSE "rgba(" \o display_f32(prgb[1]) \o "%, " \o display_f32(prgb[2]) \o "%, "
             \o display_f32(prgb[3]) \o "%, " \o display_f32(hundredths(prgb[4])) \o ")")

to_cmyk(color) == Then(to_rgb(color), LAMBDA rgb : rgb_to_cmyk(rgb[1], rgb[2], rgb[3], rgb[4]))

to_cmyk_string(color) ==
    Then(to_cmyk(color), LAMBDA cmyk :
        "cmyk(" \o display_i32(cmyk.c) \o "%, " \o display_i32(cmyk.m) \o "%, "
        \o display_i32(cmyk.y) \o "%, " \o display_i32(cmyk.k) \o "%)")

\* hex_names(): the map from hex strings to names made by iterating names(), a
\* HashMap, so that of the names with one hex string any one can be the entry:
\* the names that hex_names() can hold for hex
hex_names(hex) == {p[1] : p \in {q \in names : q[2] = hex}}

\* BigColor::to_name: the values it can return, <<>> for None and <<name>> for
\* Some(name)
to_name(color) ==
    IF FEq(color.oklch.alpha, Zero) THEN {<<"transparent">>}
    ELSE IF FLt(color.oklch.alpha, One) THEN {<<>>}
    ELSE LET found == hex_names(to_hex(color, TRUE))
         IN  IF found = {} THEN {<<>>} ELSE {<<n>> : n \in found}

\* The match of to_string on the format, with the value name of to_name()
string_of_format(color, format, name) ==
    CASE format = "RGB" -> to_rgb_string(color)
      [] format = "PRGB" -> to_percentage_rgb_string(color)
      [] format \in {"HEX", "HEX6"} -> hex_string(color, FALSE)
      [] format = "HEX3" -> hex_string(color, TRUE)
      [] format = "HEX8" -> to_hex8_string(color, FALSE)
      [] format = "NAME" -> IF name # <<>> THEN name[1] ELSE hex_string(color, FALSE)
      [] format = "HSL" -> to_hsl_string(color)
      [] format = "HSV" -> to_hsv_string(color)
      [] format = "HSB" -> to_hsb_string(color)
      [] format = "LAB" -> to_lab_string(color)
      [] format = "LCH" -> to_lch_string(color)
      [] format = "OKLAB" -> to_oklab_string(color)
      [] format = "OKLCH" -> to_oklch_string(color)
      [] format = "CMYK" -> to_cmyk_string(color)
      [] OTHER -> hex_string(color, FALSE)

\* BigColor::to_string for the format Some(format), or None as <<>>, where
\* name is the value of to_name()
to_string(color, format, name) ==
    LET fmt == unwrap_or(format, color.format)
        has_alpha == FLt(color.oklch.alpha, One) /\ FLe(Zero, color.oklch.alpha)
        needs_alpha_format == fmt \in {"HEX", "HEX6", "HEX3", "HEX8", "NAME"}
    IN  IF has_alpha /\ needs_alpha_format
        THEN IF fmt = "NAME" /\ FEq(color.oklch.alpha, Zero) /\ name # <<>>
             THEN name[1]
             ELSE to_rgb_string(color)
        ELSE string_of_format(color, fmt, name)

\* BigColor::clone_color: new of to_string(None), where name is the value of
\* to_name()
clone_color(color, name) == new(to_string(color, <<>>, name))

(***************************************************************************)
(* src/lib.rs and src/accessibility.rs: luminance, contrast, readability   *)
(***************************************************************************)

\* c <= 0.03928 ? c / 12.92 : ((c + 0.055) / 1.055).powf(2.4)
luminance_channel(c) ==
    IF FLe(c, F(10544145, -28))
    THEN FDiv(c, F(13547602, -20))
    ELSE Pow24(FDiv(FAdd(c, F(14763950, -28)), F(8849981, -23)))

\* BigColor::get_luminance: 0.2126 * r + 0.7152 * g + 0.0722 * b
get_luminance(color) ==
    Then(to_rgb(color), LAMBDA rgb :
        Then(<<luminance_channel(FDiv(FromInt(rgb[1]), F255)),
               luminance_channel(FDiv(FromInt(rgb[2]), F255)),
               luminance_channel(FDiv(FromInt(rgb[3]), F255))>>, LAMBDA lin :
            FAdd(FAdd(FMul(F(14267344, -26), lin[1]), FMul(F(11999065, -24), lin[2])),
                 FMul(F(9690520, -27), lin[3]))))

\* (lighter + 0.05) / (darker + 0.05)
contrast_of(lighter, darker) == FDiv(FAdd(lighter, F(13421773, -28)), FAdd(darker, F(13421773, -28)))

\* get_contrast_ratio without the ordering of the two luminances
get_contrast_ratio_unordered(color1, color2) ==
    Then(get_luminance(color1), LAMBDA l1 : Then(get_luminance(color2), LAMBDA l2 :
        contrast_of(l1, l2)))

\* accessibility::get_contrast_ratio
get_contrast_ratio(color1, color2) ==
    Then(get_luminance(color1), LAMBDA l1 : Then(get_luminance(color2), LAMBDA l2 :
        IF FLt(l2, l1) THEN contrast_of(l1, l2) ELSE contrast_of(l2, l1)))

\* color.to_oklch().l < 0.5
is_dark_base(color) == FLt(color.oklch.l, Half)

\* accessibility::is_light: color.to_oklch().l >= 0.5
is_light(color) == FLe(Half, color.oklch.l)

\* accessibility::get_contrast_color: each channel is
\* ((128.0 * (1.0 - intensity)) + (extreme as f32 * intensity)) as u8
get_contrast_color(color, intensity0) ==
    LET intensity == FMin(FMax(intensity0, Zero), One)
        extreme == IF is_light(color) THEN 0 ELSE 255
        ch == AsU8(FAdd(FMul(FromInt(128), FSub(One, intensity)),
                        FMul(FromInt(extreme), intensity)))
    IN  from_rgb(ch, ch, ch, One)

\* mix: each channel is ((c2 as f32 - c1 as f32) * p + c1 as f32) as u8 and
\* the alpha (a2 - a1) * p + a1, for p = amount / 100.0
mix(color1, color2, amount) ==
    Then(<<to_rgb(color1), to_rgb(color2)>>, LAMBDA rgb :
        LET p == FDiv(unwrap_or(amount, FromInt(50)), F100)
            ch(i) == AsU8(FAdd(FMul(FSub(FromInt(rgb[2][i]), FromInt(rgb[1][i])), p),
                               FromInt(rgb[1][i])))
            a == FAdd(FMul(FSub(rgb[2][4], rgb[1][4]), p), rgb[1][4])
        IN  from_rgb(ch(1), ch(2), ch(3), a))

\* readability: (max + 0.05) / (min + 0.05) of the two luminances
readability(color1, color2) ==
    Then(get_luminance(color1), LAMBDA l1 : Then(get_luminance(color2), LAMBDA l2 :
        contrast_of(FMax(l1, l2), FMin(l1, l2))))

\* WCAG2Params::default()
WCAG2ParamsDefault == [level |-> "AA", size |-> "Small"]

\* is_readable that holds of no pair of colours
is_readable_never(color1, color2, wcag2) == FALSE

\* is_readable: wcag2 is <<>> for None and <<params>> for Some(params)
is_readable(color1, color2, wcag2) ==
    LET params == unwrap_or(wcag2, WCAG2ParamsDefault)
        readability_value == readability(color1, color2)
    IN  IF <<params.level, params.size>> \in {<<"AA", "Small">>, <<"AAA", "Large">>}
        THEN FLe(F(9437184, -21), readability_value)
        ELSE IF <<params.level, params.size>> = <<"AA", "Large">>
        THEN FLe(Three, readability_value)
        ELSE FLe(FromInt(7), readability_value)

\* MostReadableArgs::default()
MostReadableArgsDefault == [include_fallback_colors |-> FALSE, wcag2 |-> WCAG2ParamsDefault]

\* The loop of most_readable from the i-th colour on: <<best_color, best_score>>
RECURSIVE best_readable(_, _, _, _, _)
best_readable(base_color, color_list, i, best_color, best_score) ==
    IF i > Len(color_list) THEN <<best_color, best_score>>
    ELSE Then(readability(base_color, color_list[i]), LAMBDA readability_value :
             IF FLt(best_score, readability_value)
             THEN best_readable(base_color, color_list, i + 1, <<color_list[i]>>,
                                readability_value)
             ELSE best_readable(base_color, color_list, i + 1, best_color, best_score))

\* most_readable as the calls-th call of itself in a run: the colour it
\* returns and the number of calls made by then
RECURSIVE most_readable_call(_, _, _, _)
most_readable_call(base_color, color_list, args0, calls) ==
    LET args == unwrap_or(args0, MostReadableArgsDefault)
    IN  Then(best_readable(base_color, color_list, 1, <<>>, Zero)[1], LAMBDA best_color :
            IF best_color = <<>> THEN [color |-> new("#000"), calls |-> calls]
            ELSE IF is_readable(base_color, best_color[1], <<args.wcag2>>)
                    \/ ~args.include_fallback_colors
            THEN [color |-> best_color[1], calls |-> calls]
            ELSE most_readable_call(base_color, <<new("#fff"), new("#000")>>,
                                    <<[args EXCEPT !.include_fallback_colors = FALSE]>>,
                                    calls + 1))

\* most_readable: the colour, and the number of calls of most_readable made
most_readable(base_color, color_list, args) == most_readable_call(base_color, color_list, args, 1)

(***************************************************************************)
(* src/parser/mod.rs: the parser whose result is a Result                  *)
(***************************************************************************)

\* Ok(RgbaColor { r, g, b, a }) and Err(ParseColorError::e)
Ok(r, g, b, a) == [ok |-> TRUE, r |-> r, g |-> g, b |-> b, a |-> a]
Err(e) == [ok |-> FALSE, err |-> e]

\* f32::clamp: NaN stays NaN
FClamp(x, lo, hi) ==
    IF IsNaN(x) THEN x ELSE IF FLt(x, lo) THEN lo ELSE IF FLt(hi, x) THEN hi ELSE x

clamp01(t) == FClamp(t, Zero, One)

\* str::split(c): the pieces between the occurrences of the character c
RECURSIVE split(_, _)
split(s, c) ==
    Let(IndexOf(s, c, 1), LAMBDA i :
        IF i = 0 THEN <<s>>
        ELSE <<SubSeq(s, 1, i - 1)>> \o split(SubSeq(s, i + 1, Len(s)), c))

\* The pieces of t, which does not begin with whitespace, up to its first
\* whitespace at ws (0 for none), and of the rest
RECURSIVE split_words(_, _)
split_words(t, ws) ==
    IF t = "" THEN <<>>
    ELSE IF ws = 0 THEN <<t>>
    ELSE Let(trim_start(SubSeq(t, ws, Len(t))), LAMBDA rest :
             <<SubSeq(t, 1, ws - 1)>>
             \o split_words(rest, Least({j \in 1..Len(rest) : Ch(rest, j) \in WhiteSpace}
                                        \cup {Len(rest) + 1}) % (Len(rest) + 1)))

\* str::split_whitespace
split_whitespace(s) ==
    Let(trim_start(s), LAMBDA t :
        split_words(t, Least({j \in 1..Len(t) : Ch(t, j) \in WhiteSpace}
                             \cup {Len(t) + 1}) % (Len(t) + 1)))

\* str::strip_suffix: <<>> for None
strip_suffix(s, suffix) ==
    IF Len(s) >= Len(suffix) /\ SubSeq(s, Len(s) - Len(suffix) + 1, Len(s)) = suffix
    THEN <<SubSeq(s, 1, Len(s) - Len(suffix))>>
    ELSE <<>>

\* What parse_color_args hands to its closure: the parts, or all of s split
\* at its commas when there are none, and the alpha
color_args(parts, alpha, s) ==
    [ok |-> TRUE, parts |-> IF parts = <<>> THEN split(s, ",") ELSE parts, alpha |-> alpha]

\* The alpha that was parsed is clamped; one that was not is the error ()
color_args_with_alpha(parts, alpha, s) ==
    IF alpha = <<>> THEN [ok |-> FALSE] ELSE color_args(parts, <<clamp01(alpha[1])>>, s)

\* The comma separator: a fourth part is the alpha
comma_args(parts, s) ==
    IF Len(parts) = 4
    THEN color_args_with_alpha(SubSeq(parts, 1, 3), parse_f32(trim(parts[4])), s)
    ELSE color_args(parts, <<>>, s)

\* Split color args and parse: the slash separator, the comma separator or
\* the whitespace separator
parse_color_args(s) ==
    Let(IndexOf(s, "/", 1), LAMBDA i :
        IF i > 0
        THEN color_args_with_alpha(split_whitespace(SubSeq(s, 1, i - 1)),
                                   parse_f32(trim(SubSeq(s, i + 1, Len(s)))), s)
        ELSE IF IndexOf(s, ",", 1) > 0 THEN comma_args(split(s, ","), s)
        ELSE color_args(split_whitespace(s), <<>>, s))

\* <<>> for Err, <<v, pct>> for Ok((v, pct))
parse_unit(s) ==
    Let(strip_suffix(s, "%"), LAMBDA p :
        Let(parse_f32(IF p = <<>> THEN s ELSE p[1]), LAMBDA v :
            IF v = <<>> THEN <<>> ELSE <<v[1], p # <<>>>>))

\* <<>> for Err, <<v>> for Ok(v)
parse_percentage(s) ==
    Let(parse_unit(s), LAMBDA u :
        IF u = <<>> THEN <<>> ELSE <<IF u[2] THEN FDiv(u[1], F100) ELSE u[1]>>)

parse_number(s) == parse_f32(s)

\* The suffixes are tried in the order deg, rad, grad, turn, and the first
\* that the string ends with decides
parse_hue_or_angle(s) ==
    LET number(t, G(_)) == Let(parse_f32(t), LAMBDA v : IF v = <<>> THEN <<>> ELSE <<G(v[1])>>)
    IN  IF strip_suffix(s, "deg") # <<>>
        THEN number(strip_suffix(s, "deg")[1], LAMBDA v : FRem(v, F360))
        ELSE IF strip_suffix(s, "rad") # <<>>
        THEN number(strip_suffix(s, "rad")[1],
                    LAMBDA v : FDiv(FMul(v, FromInt(180)), F(13176795, -22)))
        ELSE IF strip_suffix(s, "grad") # <<>>
        THEN number(strip_suffix(s, "grad")[1], LAMBDA v : FMul(v, F(15099494, -24)))
        ELSE IF strip_suffix(s, "turn") # <<>>
        THEN number(strip_suffix(s, "turn")[1], LAMBDA v : FMul(v, F360))
        ELSE parse_number(s)

\* parse_hex of src/parser/mod.rs
parser_parse_hex(s) ==
    LET one(i) == FDiv(FromInt(17 * hex_u8(Ch(s, i))), F255)
        two(i) == FDiv(FromInt(hex_u8(SubSeq(s, 2 * i - 1, 2 * i))), F255)
    IN  IF Len(s) \notin {3, 4, 6, 8} \/ ~AllIn(s, HexDigit) THEN Err("InvalidHexColor")
        ELSE IF Len(s) = 3 THEN Ok(one(1), one(2), one(3), One)
        ELSE IF Len(s) = 4 THEN Ok(one(1), one(2), one(3), one(4))
        ELSE IF Len(s) = 6 THEN Ok(two(1), two(2), two(3), One)
        ELSE Ok(two(1), two(2), two(3), two(4))

\* The loop of parse_rgb over the three units: every one must parse, and be
\* a percentage exactly when the first is
rgb_of_units(u1, u2, u3, alpha) ==
    LET ch(u) == clamp01(FDiv(u[1], IF u1[2] THEN F100 ELSE F255))
    IN  IF u1 = <<>> \/ u2 = <<>> \/ u3 = <<>> THEN Err("InvalidRgbColor")
        ELSE IF u2[2] # u1[2] \/ u3[2] # u1[2] THEN Err("InvalidRgbColor")
        ELSE Ok(ch(u1), ch(u2), ch(u3), alpha)

parse_rgb(s) ==
    Let(parse_color_args(s), LAMBDA c :
        IF ~c.ok THEN Err("InvalidRgbColor")
        ELSE IF Len(c.parts) # 3 THEN Err("InvalidRgbColor")
        ELSE rgb_of_units(parse_unit(trim(c.parts[1])), parse_unit(trim(c.parts[2])),
                          parse_unit(trim(c.parts[3])), unwrap_or(c.alpha, One)))

\* hue_to_rgb of src/parser/mod.rs
parser_hue_to_rgb(n1, n2, h0) ==
    Let(FRem(FAdd(FRem(h0, FromInt(6)), FromInt(6)), FromInt(6)), LAMBDA h :
        IF FLt(h, One) THEN FAdd(n1, FMul(FSub(n2, n1), h))
        ELSE IF FLt(h, Three) THEN n2
        ELSE IF FLt(h, Four) THEN FAdd(n1, FMul(FSub(n2, n1), FSub(Four, h)))
        ELSE n1)

\* The channels of hsl_to_rgb for s # 0, from n2
parser_hsl_channels(n1, n2, h) ==
    <<parser_hue_to_rgb(n1, n2, FAdd(h, Two)), parser_hue_to_rgb(n1, n2, h),
      parser_hue_to_rgb(n1, n2, FSub(h, Two))>>

\* hsl_to_rgb of src/parser/mod.rs
parser_hsl_to_rgb(h, s, l) ==
    IF FEq(s, Zero) THEN <<l, l, l>>
    ELSE Let(IF FLt(l, Half) THEN FMul(l, FAdd(One, s)) ELSE FSub(FAdd(l, s), FMul(l, s)),
             LAMBDA n2 : parser_hsl_channels(FSub(FMul(Two, l), n2), n2,
                                             FDiv(h, FromInt(60))))

\* hwb_to_rgb of src/parser/mod.rs
hwb_to_rgb(h, w, b) ==
    IF FLe(One, FAdd(w, b))
    THEN Let(FDiv(w, FAdd(w, b)), LAMBDA gray : <<gray, gray, gray>>)
    ELSE Let(parser_hsl_to_rgb(h, One, Half), LAMBDA rgb :
             LET ch(c) == FAdd(FMul(c, FSub(FSub(One, w), b)), w)
             IN  <<ch(rgb[1]), ch(rgb[2]), ch(rgb[3])>>)

\* i as i32 % 6 for the float i: the cast saturates and takes NaN to 0, and
\* the remainder has the sign of the dividend
sector_of(i) ==
    IF IsNaN(i) THEN 0
    ELSE IF IsInf(i) \/ i.e >= 8
    THEN (IF i.m > 0 THEN (2^31 - 1) % 6 ELSE -((2^31) % 6))
    ELSE IF AsInt(i) >= 0 THEN AsInt(i) % 6 ELSE -((-AsInt(i)) % 6)

\* The match of hsv_to_rgb on the sector
parser_hsv_sector(sector, v, p, q, t) ==
    IF sector = 0 THEN <<v, t, p>>
    ELSE IF sector = 1 THEN <<q, v, p>>
    ELSE IF sector = 2 THEN <<p, v, t>>
    ELSE IF sector = 3 THEN <<p, q, v>>
    ELSE IF sector = 4 THEN <<t, p, v>>
    ELSE <<v, p, q>>

\* hsv_to_rgb of src/parser/mod.rs for s # 0: h is the hue over 60, i its floor
parser_hsv_channels(h, i, s, v) ==
    Let(FSub(h, i), LAMBDA f :
        parser_hsv_sector(sector_of(i), v, FMul(v, FSub(One, s)),
                          FMul(v, FSub(One, FMul(s, f))),
                          FMul(v, FSub(One, FMul(s, FSub(One, f))))))

parser_hsv_to_rgb(h, s, v) ==
    IF FEq(s, Zero) THEN <<v, v, v>>
    ELSE Let(FDiv(h, FromInt(60)), LAMBDA h6 : parser_hsv_channels(h6, FFloor(h6), s, v))

\* The closure of parse_hsl, parse_hwb and parse_hsv: a hue or angle and two
\* percentages, converted by convert; every error becomes the error e
parse_hue_and_two(s, e, convert(_, _, _)) ==
    Let(parse_color_args(s), LAMBDA c :
        IF ~c.ok THEN Err(e)
        ELSE IF Len(c.parts) # 3 THEN Err(e)
        ELSE Let(<<parse_hue_or_angle(trim(c.parts[1])), parse_percentage(trim(c.parts[2])),
                   parse_percentage(trim(c.parts[3]))>>, LAMBDA x :
                 IF x[1] = <<>> \/ x[2] = <<>> \/ x[3] = <<>> THEN Err(e)
                 ELSE Let(convert(x[1][1], x[2][1], x[3][1]), LAMBDA rgb :
                          Ok(rgb[1], rgb[2], rgb[3], unwrap_or(c.alpha, One)))))

parse_hsl(s) == parse_hue_and_two(s, "InvalidHslColor", parser_hsl_to_rgb)

parse_hwb(s) == parse_hue_and_two(s, "InvalidHwb", hwb_to_rgb)

parse_hsv(s) == parse_hue_and_two(s, "InvalidHsvColor", parser_hsv_to_rgb)

\* str::trim_matches: the characters of cs are taken off both ends
trim_matches(s, cs) ==
    Let({j \in 1..Len(s) : Ch(s, j) \notin cs}, LAMBDA keep :
        IF keep = {} THEN "" ELSE SubSeq(s, Least(keep), Greatest(keep)))

\* The loop of parse_color_function over its parts from the k-th: a "/"
\* starts the alpha, the part after it is the alpha and ends the loop, and
\* every other part that is not empty is a component
RECURSIVE color_components(_, _, _, _)
color_components(parts, k, in_alpha, components) ==
    IF k > Len(parts) THEN [ok |-> TRUE, components |-> components, alpha |-> One]
    ELSE IF parts[k] = "/" THEN color_components(parts, k + 1, TRUE, components)
    ELSE Let(trim_matches(parts[k], {","} \cup WhiteSpace), LAMBDA trimmed :
             IF ~in_alpha /\ trimmed = ""
             THEN color_components(parts, k + 1, FALSE, components)
             ELSE Let(parse_number(trimmed), LAMBDA value :
                      IF value = <<>> THEN Err("InvalidNumberFormat")
                      ELSE IF in_alpha
                      THEN [ok |-> TRUE, components |-> components,
                            alpha |-> clamp01(value[1])]
                      ELSE color_components(parts, k + 1, FALSE,
                                            Append(components, value[1]))))

\* The gamma correction of parse_color_function
parser_gamma(r) == linear_to_srgb(r)

\* The match of parse_color_function on the colour space
color_space_to_rgb(color_space, x, y, z, alpha) ==
    IF color_space \in {"srgb", "a98-rgb", "prophoto-rgb", "rec2020"}
    THEN Ok(clamp01(x), clamp01(y), clamp01(z), alpha)
    ELSE IF color_space = "display-p3"
    THEN Ok(clamp01(FSub(FSub(FMul(F(8793778, -23), x), FMul(F(12965433, -28), y)),
                         FMul(Zero, z))),
            clamp01(FSub(FAdd(FMul(Zero, x), FMul(F(8490110, -23), y)),
                         FMul(F(12992276, -30), z))),
            clamp01(FAdd(FSub(FMul(Zero, x), FMul(F(9717364, -29), y)),
                         FMul(F(8540442, -23), z))),
            alpha)
    ELSE IF color_space \in {"xyz", "xyz-d50", "xyz-d65"}
    THEN Ok(clamp01(parser_gamma(FSub(FSub(FMul(F(13591450, -22), x),
                                           FMul(F(12894452, -23), y)),
                                      FMul(F(16727938, -25), z)))),
            clamp01(parser_gamma(FAdd(FAdd(FMul(F(-16261585, -24), x),
                                           FMul(F(15737119, -23), y)),
                                      FMul(F(11155104, -28), z)))),
            clamp01(parser_gamma(FAdd(FSub(FMul(F(14936661, -28), x),
                                           FMul(F(13691946, -26), y)),
                                      FMul(F(8868648, -23), z)))),
            alpha)
    ELSE Err("InvalidColorFunction")

\* parse_color_function on the parts of its argument
color_function_of(parts) ==
    IF parts = <<>> THEN Err("InvalidColorFunction")
    ELSE Let(color_components(parts, 2, FALSE, <<>>), LAMBDA c :
             IF ~c.ok THEN c
             ELSE IF Len(c.components) < 3 THEN Err("InvalidColorFunction")
             ELSE color_space_to_rgb(parts[1], c.components[1], c.components[2],
                                     c.components[3], c.alpha))

parse_color_function(s) == Then(split_whitespace(s), color_function_of)

\* The match of parse_internal on the name of the function, in a build
\* without the feature "lab"
parse_function(fname, args) ==
    IF fname \in {"rgb", "rgba"} THEN parse_rgb(args)
    ELSE IF fname \in {"hsl", "hsla"} THEN parse_hsl(args)
    ELSE IF fname \in {"hwb", "hwba"} THEN parse_hwb(args)
    ELSE IF fname \in {"hsv", "hsva"} THEN parse_hsv(args)
    ELSE IF fname = "color" THEN parse_color_function(args)
    ELSE Err("InvalidFunction")

\* parse_internal on the trimmed, lower-cased string, of which i is the
\* place of the first "(" (0 for none), in a build without the feature
\* "named-colors"
parse_lowered(s, i) ==
    IF s = "transparent" THEN Ok(Zero, Zero, Zero, Zero)
    ELSE IF s # "" /\ Head(s) = "#" THEN parser_parse_hex(Tail(s))
    ELSE IF i > 1 /\ strip_suffix(s, ")") # <<>>
    THEN parse_function(SubSeq(s, 1, i - 1), SubSeq(s, i + 1, Len(s) - 1))
    ELSE Err("InvalidUnknown")

\* Internal parse function that returns RgbaColor
parse_internal(s) ==
    Then(to_lowercase(trim(s)), LAMBDA t : parse_lowered(t, IndexOf(t, "(", 1)))

\* Parse CSS color string: Ok(BigColor::new(r, g, b, a)), which is a solid
\* colour of these channels, or the error of parse_internal
parse(s) == parse_internal(s)

(***************************************************************************)
(* The life of a BigColor of src/lib.rs: a constructor makes it, mutators  *)
(* change it in place, and a scheme method returns colours made from it.   *)
(***************************************************************************)

VARIABLES
    color,  \* the colour the operations act on
    ret,    \* the value the last call returned
    op,     \* the last constructor, conversion or scheme call and its arguments
    pc,     \* where the run is: "start", "live", "done", "panicked", "diverged", ...
    steps   \* the number of mutator calls made on the colour

vars == <<color, ret, op, pc, steps>>

Call(name, args) == [name |-> name, args |-> args]

Init ==
    /\ color = default
    /\ ret = <<>>
    /\ op = Call("none", <<>>)
    /\ pc = "start"
    /\ steps = 0

\* The most mutator calls made on one colour.
MaxSteps == 1
\* The greatest number of colours asked of a scheme method.
MaxCount == 3

\* Alpha arguments: inside [0, 1], above it, and NaN
Alphas == {Half, Two, NaN}
\* Hue arguments of from_oklch
Hues == {FromInt(120), FromInt(400)}
\* Strings handed to BigColor::new
Strings == {"#ff0000", "not-a-color"}
\* The amount of lighten, brighten, darken, saturate and desaturate
Amounts == {FromInt(10)}
\* The amount of spin
Turns == {FromInt(-400)}
\* The number of colours asked of a scheme: None, or Some(n)
Counts == {<<>>} \cup {<<n>> : n \in 0..MaxCount}
\* The slices of analogous
Slices == {<<>>, <<0>>, <<1>>}

New(s) ==
    /\ pc = "start"
    /\ color' = new(s)
    /\ op' = Call("new", <<s>>)
    /\ pc' = "live"
    /\ UNCHANGED <<ret, steps>>

FromRgb(r, g, b, a) ==
    /\ pc = "start"
    /\ color' = from_rgb(r, g, b, a)
    /\ op' = Call("from_rgb", <<r, g, b, a>>)
    /\ pc' = "live"
    /\ UNCHANGED <<ret, steps>>

FromHsl(h, s, l, a) ==
    /\ pc = "start"
    /\ color' = from_hsl(h, s, l, a)
    /\ op' = Call("from_hsl", <<h, s, l, a>>)
    /\ pc' = "live"
    /\ UNCHANGED <<ret, steps>>

FromHsv(h, s, v, a) ==
    /\ pc = "start"
    /\ color' = from_hsv(h, s, v, a)
    /\ op' = Call("from_hsv", <<h, s, v, a>>)
    /\ pc' = "live"
    /\ UNCHANGED <<ret, steps>>

FromLch(l, c, h, a) ==
    /\ pc = "start"
    /\ color' = from_lch(l, c, h, a)
    /\ op' = Call("from_lch", <<l, c, h, a>>)
    /\ pc' = "live"
    /\ UNCHANGED <<ret, steps>>

FromOklch(l, c, h, a) ==
    /\ pc = "start"
    /\ color' = from_oklch(l, c, h, a)
    /\ op' = Call("from_oklch", <<l, c, h, a>>)
    /\ pc' = "live"
    /\ UNCHANGED <<ret, steps>>

FromCmyk(c, m, y, k, a) ==
    /\ pc = "start"
    /\ color' = from_cmyk(c, m, y, k, a)
    /\ op' = Call("from_cmyk", <<c, m, y, k, a>>)
    /\ pc' = "live"
    /\ UNCHANGED <<ret, steps>>

SetAlpha(value) ==
    /\ pc = "live"
    /\ steps < MaxSteps
    /\ color' = set_alpha(color, value)
    /\ steps' = steps + 1
    /\ UNCHANGED <<ret, op, pc>>

Lighten(amount) ==
    /\ pc = "live"
    /\ steps < MaxSteps
    /\ color' = lighten(color, amount)
    /\ steps' = steps + 1
    /\ UNCHANGED <<ret, op, pc>>

Brighten(amount) ==
    /\ pc = "live"
    /\ steps < MaxSteps
    /\ color' = brighten(color, amount)
    /\ steps' = steps + 1
    /\ UNCHANGED <<ret, op, pc>>

Darken(amount) ==
    /\ pc = "live"
    /\ steps < MaxSteps
    /\ color' = darken(color, amount)
    /\ steps' = steps + 1
    /\ UNCHANGED <<ret, op, pc>>

Desaturate(amount) ==
    /\ pc = "live"
    /\ steps < MaxSteps
    /\ color' = desaturate(color, amount)
    /\ steps' = steps + 1
    /\ UNCHANGED <<ret, op, pc>>

Saturate(amount) ==
    /\ pc = "live"
    /\ steps < MaxSteps
    /\ color' = saturate(color, amount)
    /\ steps' = steps + 1
    /\ UNCHANGED <<ret, op, pc>>

Greyscale ==
    /\ pc = "live"
    /\ steps < MaxSteps
    /\ color' = greyscale(color)
    /\ steps' = steps + 1
    /\ UNCHANGED <<ret, op, pc>>

Spin(amount) ==
    /\ pc = "live"
    /\ steps < MaxSteps
    /\ color' = spin(color, amount)
    /\ steps' = steps + 1
    /\ UNCHANGED <<ret, op, pc>>

\* results - 1 is a subtraction of usize: for results = 0 it panics in a build
\* with overflow checks, and wraps to usize::MAX in a build without them,
\* where the loop then pushes colours until memory runs out.
Analogous(results, slices) ==
    /\ pc = "live"
    /\ op' = Call("analogous", <<results, slices>>)
    /\ IF unwrap_or(results, 6) = 0
       THEN pc' \in {"panicked", "diverged"} /\ ret' = ret
       ELSE pc' = "done" /\ ret' = analogous(color, results, slices)
    /\ UNCHANGED <<color, steps>>

Complement ==
    /\ pc = "live"
    /\ ret' = <<complement(color)>>
    /\ op' = Call("complement", <<>>)
    /\ pc' = "done"
    /\ UNCHANGED <<color, steps>>

Monochromatic(results) ==
    /\ pc = "live"
    /\ ret' = monochromatic(color, results)
    /\ op' = Call("monochromatic", <<results>>)
    /\ pc' = "done"
    /\ UNCHANGED <<color, steps>>

SplitComplement ==
    /\ pc = "live"
    /\ ret' = split_complement(color)
    /\ op' = Call("split_complement", <<>>)
    /\ pc' = "done"
    /\ UNCHANGED <<color, steps>>

Triad ==
    /\ pc = "live"
    /\ ret' = triad(color)
    /\ op' = Call("triad", <<>>)
    /\ pc' = "done"
    /\ UNCHANGED <<color, steps>>

Tetrad ==
    /\ pc = "live"
    /\ ret' = tetrad(color)
    /\ op' = Call("tetrad", <<>>)
    /\ pc' = "done"
    /\ UNCHANGED <<color, steps>>

\* panic!("Argument to polyad must be a positive number")
Polyad(number) ==
    /\ pc = "live"
    /\ op' = Call("polyad", <<number>>)
    /\ IF number = 0
       THEN pc' = "panicked" /\ ret' = ret
       ELSE pc' = "done" /\ ret' = polyad(color, number)
    /\ UNCHANGED <<color, steps>>

Next ==
    \/ \E s \in Strings : New(s)
    \/ \E a \in Alphas : FromRgb(18, 110, 245, a)
    \/ \E a \in Alphas : FromHsl(FromInt(210), Half, Half, a)
    \/ \E a \in Alphas : FromHsv(FromInt(210), Half, Half, a)
    \/ \E a \in Alphas : FromLch(FromInt(50), FromInt(50), FromInt(30), a)
    \/ \E h \in Hues, a \in Alphas : FromOklch(Half, F(13421773, -27), h, a)
    \/ \E a \in Alphas : FromCmyk(FromInt(50), Zero, FromInt(25), FromInt(10), a)
    \/ \E value \in Alphas : SetAlpha(value)
    \/ \E amount \in Amounts : Lighten(amount)
    \/ \E amount \in Amounts : Brighten(amount)
    \/ \E amount \in Amounts : Darken(amount)
    \/ \E amount \in Amounts : Desaturate(amount)
    \/ \E amount \in Amounts : Saturate(amount)
    \/ Greyscale
    \/ \E amount \in Turns : Spin(amount)
    \/ \E results \in Counts, slices \in Slices : Analogous(results, slices)
    \/ Complement
    \/ \E results \in Counts : Monochromatic(results)
    \/ SplitComplement
    \/ Triad
    \/ Tetrad
    \/ \E number \in 0..MaxCount : Polyad(number)

Spec == Init /\ [][Next]_vars

(***************************************************************************)
(* Properties of the life of a BigColor                                    *)
(***************************************************************************)

\* The methods that return colours with hues made from the receiver's
HueSchemes == {"analogous", "complement", "split_complement", "triad", "tetrad", "polyad"}

HueInRange(c) == ~IsNaN(c.oklch.h) /\ FLe(Zero, c.oklch.h) /\ FLt(c.oklch.h, F360)

AlphaInRange(c) == ~IsNaN(c.oklch.alpha) /\ FLe(Zero, c.oklch.alpha) /\ FLe(c.oklch.alpha, One)

\* C5: the stored hue of every colour a constructor made and mutators
\* changed, and of every colour complement, split_complement, analogous,
\* triad, tetrad or polyad returned, lies in [0, 360).
C5_HueInRange ==
    /\ pc \in {"live", "done"} => HueInRange(color)
    /\ pc = "done" /\ op.name \in HueSchemes => \A i \in DOMAIN ret : HueInRange(ret[i])

\* C6: the stored alpha of every colour a constructor made and set_alpha and
\* the mutators changed lies in [0, 1] and is not NaN.
C6_AlphaInRange == pc = "live" => AlphaInRange(color)

\* x and y differ by 2^-20 at most
Near(x, y) == FLe(FAbs(FSub(x, y)), FDiv(One, FromInt(2^20)))

C10_OnlyPolyadPanics == pc \in {"panicked", "diverged"} => op = Call("polyad", <<0>>)


(***************************************************************************)
(* The SolidColor of src/solid.rs: made of four bytes, then written as a   *)
(* hex string                                                              *)
(***************************************************************************)

\* The channel bytes a SolidColor is made of
SolidBytes == {0, 18, 26, 110, 245, 255}
\* Its alpha bytes
SolidAlphas == {0, 128, 255}

SolidInit ==
    /\ color = default
    /\ ret = <<>>
    /\ op \in {Call("from_rgba8", <<r, g, b, a>>) :
                  r \in SolidBytes, g \in SolidBytes, b \in SolidBytes, a \in SolidAlphas}
    /\ pc = "start"
    /\ steps = 0

FromRgba8 ==
    /\ pc = "start"
    /\ color' = from_rgba8(op.args[1], op.args[2], op.args[3], op.args[4])
    /\ pc' = "live"
    /\ UNCHANGED <<ret, op, steps>>

ToRgba8 ==
    /\ pc = "live"
    /\ ret' = to_rgba8(color)
    /\ pc' = "bytes"
    /\ UNCHANGED <<color, op, steps>>

ToHexString ==
    /\ pc = "live"
    /\ ret' = to_hex_string(color)
    /\ pc' = "done"
    /\ UNCHANGED <<color, op, steps>>

SolidNext == FromRgba8 \/ ToRgba8 \/ ToHexString

SpecSolid == SolidInit /\ [][SolidNext]_vars

\* to_hex_string has returned for from_rgba8(18, 110, 245, 255)
C7_Case == pc = "done" /\ op = Call("from_rgba8", <<18, 110, 245, 255>>)

\* C7 as stated: to_hex_string(from_rgba8(18, 110, 245, 255)) is "#1a6ef5".
C7_HexAsStated == C7_Case => ret = "#1a6ef5"

\* C7: to_hex_string(from_rgba8(18, 110, 245, 255)) is "#126ef5": 18 is 12
\* in hexadecimal.
C7_Hex == C7_Case => ret = "#126ef5"

C7_Witness == C7_Case /\ Len(ret) = 7

(***************************************************************************)
(* rgb_to_hex and rgba_to_hex of src/color_space.rs, and input_to_rgb of   *)
(* src/parse.rs on the strings they return                                 *)
(***************************************************************************)

\* The channel bytes and alpha bytes written as hex strings
HexBytes == {0, 17, 18, 170, 255}
HexAlphas == {0, 128, 170, 255}

HexInit ==
    /\ color = default
    /\ ret = <<>>
    /\ op \in {Call("rgb_to_hex", <<r, g, b, allow>>) :
                  r \in HexBytes, g \in HexBytes, b \in HexBytes, allow \in BOOLEAN}
             \cup {Call("rgba_to_hex", <<r, g, b, a, allow>>) :
                  r \in HexBytes, g \in HexBytes, b \in HexBytes, a \in HexAlphas,
                  allow \in BOOLEAN}
    /\ pc = "start"
    /\ steps = 0

RgbToHex ==
    /\ pc = "start"
    /\ op.name = "rgb_to_hex"
    /\ ret' = rgb_to_hex(op.args[1], op.args[2], op.args[3], op.args[4])
    /\ pc' = "encoded"
    /\ UNCHANGED <<color, op, steps>>

\* The alpha handed to rgba_to_hex is the alpha byte over 255
RgbaToHex ==
    /\ pc = "start"
    /\ op.name = "rgba_to_hex"
    /\ ret' = rgba_to_hex(op.args[1], op.args[2], op.args[3],
                          FDiv(FromInt(op.args[4]), F255), op.args[5])
    /\ pc' = "encoded"
    /\ UNCHANGED <<color, op, steps>>

\* The returned string is parsed, after the prefix "#" or ""
InputToRgb(prefix) ==
    /\ pc = "encoded"
    /\ color' = input_to_rgb(prefix \o ret)
    /\ pc' = "done"
    /\ UNCHANGED <<ret, op, steps>>

HexNext == RgbToHex \/ RgbaToHex \/ \E prefix \in {"", "#"} : InputToRgb(prefix)

SpecHex == HexInit /\ [][HexNext]_vars

\* The channel bytes handed to rgb_to_hex or rgba_to_hex
HexChannels == SubSeq(op.args, 1, Len(op.args) - 1)

\* The two hex digits of the byte n are equal
EqualDigits(n) == n \div 16 = n % 16

\* C8: rgb_to_hex and rgba_to_hex return one digit for each channel exactly
\* when that is allowed and the two hex digits of every channel are equal,
\* and two digits for each channel otherwise; input_to_rgb on the returned
\* string, with or without a leading "#", gives the bytes that were encoded.
C8_HexEncodeDecode ==
    /\ pc \in {"encoded", "done"} =>
          Len(ret) = IF op.args[Len(op.args)]
                        /\ \A i \in DOMAIN HexChannels : EqualDigits(HexChannels[i])
                     THEN Len(HexChannels) ELSE 2 * Len(HexChannels)
    /\ pc = "done" =>
          /\ color.ok
          /\ <<color.r, color.g, color.b>> = SubSeq(op.args, 1, 3)
          /\ op.name = "rgba_to_hex" => AsU8(FRound(FMul(color.a, F255))) = op.args[4]

\* A compact string of four digits has been parsed without its "#"
C8_Witness ==
    /\ pc = "done"
    /\ op = Call("rgba_to_hex", <<255, 0, 17, 170, TRUE>>)
    /\ ret = "f01a"
    /\ color.format = "HEX8"


(***************************************************************************)
(* rgb_to_oklch and then oklch_to_rgb of src/color_space.rs                *)
(***************************************************************************)

\* The channel bytes and the alphas converted
RoundTripBytes == {0, 1, 18, 110, 128, 245, 254, 255}
RoundTripAlphas == {Zero, FDiv(One, FromInt(3)), Half, One}

RoundTripInit ==
    /\ color = default
    /\ ret = <<>>
    /\ op \in {Call("rgb_to_oklch", <<r, g, b, a>>) :
                  r \in RoundTripBytes, g \in RoundTripBytes, b \in RoundTripBytes,
                  a \in RoundTripAlphas}
    /\ pc = "start"
    /\ steps = 0

RgbToOklch ==
    /\ pc = "start"
    /\ color' = rgb_to_oklch(op.args[1], op.args[2], op.args[3], op.args[4])
    /\ pc' = "converted"
    /\ UNCHANGED <<ret, op, steps>>

OklchToRgb ==
    /\ pc = "converted"
    /\ ret' = oklch_to_rgb(color)
    /\ pc' = "done"
    /\ UNCHANGED <<color, op, steps>>

RoundTripNext == RgbToOklch \/ OklchToRgb

SpecRoundTrip == RoundTripInit /\ [][RoundTripNext]_vars

\* C3: oklch_to_rgb(rgb_to_oklch(r, g, b, a)) has channels within 1 of r, g
\* and b, and an alpha within 0.01 of a.
C3_RoundTrip ==
    pc = "done" =>
        /\ \A i \in 1..3 : Abs(ret[i] - op.args[i]) <= 1
        /\ FLe(FAbs(FSub(ret[4], op.args[4])), FDiv(One, F100))

\* A colour with three different channels and an alpha inside (0, 1) has
\* gone there and back
C3_Witness ==
    /\ pc = "done"
    /\ op.args = <<18, 110, 245, Half>>
    /\ \A i \in 1..3 : Abs(ret[i] - op.args[i]) <= 1
    /\ color.c # Zero


(***************************************************************************)
(* Strings parsed: BigColor::new, to_rgb and from_string of src/lib.rs,    *)
(* and parse of src/parser/mod.rs on the same string                       *)
(***************************************************************************)

\* The value of two hex digits
Byte(s) == (IndexOf(HexChars, Ch(s, 1), 1) - 1) * 16 + IndexOf(HexChars, Ch(s, 2), 1) - 1

\* The triple of bytes that three or six hex digits denote
Denoted(hex) ==
    IF Len(hex) = 3
    THEN [i \in 1..3 |-> Byte(Ch(hex, i) \o Ch(hex, i))]
    ELSE [i \in 1..3 |-> Byte(SubSeq(hex, 2 * i - 1, 2 * i))]

\* The notations of the named colours: the name, its hex digits with and
\* without "#", and rgb() of the bytes they denote, each with the bytes
Notations ==
    UNION {LET t == Denoted(p[2])
           IN  {<<p[1], t>>, <<p[2], t>>, <<"#" \o p[2], t>>,
                <<"rgb(" \o ToString(t[1]) \o "," \o ToString(t[2]) \o ","
                  \o ToString(t[3]) \o ")", t>>} : p \in names}

\* The strings of which the to_rgb() is stated to be (255, 0, 0) and alpha 1
RedStrings == {"#ff0000", "rgb(255,0,0)", "hsl(0,100%,50%)", "red"}

\* Functional notations that are well formed but for an alpha that is
\* unparsable or outside [0, 1]
LenientStrings ==
    {"rgba(255,0,0,garbage)", "rgba(255,0,0,2)", "rgba(255,0,0,-1)",
     "hsla(0,100%,50%,garbage)", "hsla(0,100%,50%,7)", "rgba(255,0,0,)"}

\* Strings that no notation matches
NoNotation == {"", "not-a-color", "rgb 255 0 0", "#ggg", "rgb(1,2)", "foo(1,2,3)"}

OtherStrings ==
    {"  RED ", "#F00", "transparent", "rgb(300,0,0)", "rgba(255,0,0,0.5)", "#ff000080",
     "rgb(10%, 20%, 30%)", "hsv(120, 100%, 50%)", "hsb(120, 100%, 50%)",
     "cmyk(50%, 0%, 25%, 10%)", "oklch(50% 0.1 120)", "oklab(50% 0.1 -0.1)",
     "lab(50 20 30)", "lch(50 20 30)", "120 50% 50%", "hwb(0 0% 0%)", "color(srgb 1 0 0)",
     "hsl(360deg,100%,50%)", "rgb(255 0 0 / 0.5)"}

ParseStrings ==
    {n[1] : n \in Notations} \cup RedStrings \cup LenientStrings \cup NoNotation
    \cup OtherStrings

ToRgb ==
    /\ pc = "live"
    /\ ret' = to_rgb(color)
    /\ pc' = "rgb"
    /\ UNCHANGED <<color, op, steps>>

\* from_string on the string that new was called with
FromString ==
    /\ pc = "live"
    /\ ret' = from_string(op.args[1])
    /\ pc' = "result"
    /\ UNCHANGED <<color, op, steps>>

\* parse of src/parser/mod.rs on the string that new was called with
Parse ==
    /\ pc = "live"
    /\ ret' = parse(op.args[1])
    /\ pc' = "parsed"
    /\ UNCHANGED <<color, op, steps>>

ParseNext == (\E s \in ParseStrings : New(s)) \/ ToRgb \/ FromString \/ Parse

SpecParse == Init /\ [][ParseNext]_vars

\* C1: new of "#ff0000", "rgb(255,0,0)", "hsl(0,100%,50%)" and "red" is a
\* valid colour whose to_rgb() is (255, 0, 0) with alpha 1.0; and new of a
\* hex string, of an rgb() string and of a name that denote the same bytes
\* is a valid colour whose to_rgb() is these bytes with alpha 1.0, so that
\* the three have the same to_rgb().
C1_ParserEquivalence ==
    pc = "rgb" =>
        /\ op.args[1] \in RedStrings => is_valid(color) /\ ret = <<255, 0, 0, One>>
        /\ \A n \in Notations :
              op.args[1] = n[1] => is_valid(color) /\ ret = <<n[2][1], n[2][2], n[2][3], One>>

\* to_rgb() has returned for the name of a colour of three different bytes
C1_Witness ==
    /\ pc = "rgb"
    /\ op.args[1] = "rebeccapurple"
    /\ ret = <<102, 51, 153, One>>
    /\ color.format = "NAME"

\* C2: new returns for every string; for the empty string and for a string
\* that no notation matches the colour it returns is not valid, has the
\* format INVALID and the OKLCH state l = 0, c = 0, h = 0, alpha = 1;
\* from_string is an Err exactly when the colour of new is not valid; and
\* parse of src/parser/mod.rs is an Err for "not-a-color".
C2_InvalidInput ==
    /\ pc \notin {"panicked", "diverged"}
    /\ pc # "start" /\ (op.args[1] \in NoNotation \/ string_input_to_object(op.args[1]) = <<>>) =>
          /\ ~is_valid(color)
          /\ color.format = "INVALID"
          /\ color.oklch = OKLCH(Zero, Zero, Zero, One)
    /\ pc = "result" => (~ret.ok <=> ~is_valid(color))
    /\ pc = "parsed" /\ op.args[1] = "not-a-color" => ~ret.ok

\* from_string has returned an Err for "not-a-color"
C2_Witness ==
    /\ pc = "result"
    /\ op.args[1] = "not-a-color"
    /\ ~ret.ok
    /\ ~is_valid(color)

\* C4: an alpha that is unparsable or outside [0, 1] in a notation that is
\* otherwise well formed does not make the parse fail: the colour of new is
\* valid with alpha 1.0, and parse is Ok with alpha 1.0.
C4_AlphaLenient ==
    pc # "start" /\ op.args[1] \in LenientStrings =>
        /\ is_valid(color) /\ color.oklch.alpha = One
        /\ pc = "parsed" => ret.ok /\ ret.a = One

(***************************************************************************)
(* Greys through HSL: rgb_to_hsl of src/color_space.rs on a grey, then     *)
(* hsl_to_rgb on the h, s and l it returned                                *)
(***************************************************************************)

\* The grey levels
Greys == 0..255

HslInit ==
    /\ color = default
    /\ ret = <<>>
    /\ op = Call("none", <<>>)
    /\ pc = "start"
    /\ steps = 0

RgbToHsl(r, g, b) ==
    /\ pc = "start"
    /\ color' = rgb_to_hsl(r, g, b)
    /\ op' = Call("rgb_to_hsl", <<r, g, b>>)
    /\ pc' = "converted"
    /\ UNCHANGED <<ret, steps>>

HslToRgb ==
    /\ pc = "converted"
    /\ ret' = hsl_to_rgb(color.h, color.s, color.l)
    /\ pc' = "done"
    /\ UNCHANGED <<color, op, steps>>

HslNext == (\E g \in Greys : RgbToHsl(g, g, g)) \/ HslToRgb

SpecHsl == HslInit /\ [][HslNext]_vars

\* C13: rgb_to_hsl(g, g, g) has s = 0 and h = 0 for every grey level g, and
\* hsl_to_rgb of the h, s and l it returned is (g, g, g).
C13_AchromaticHsl ==
    /\ pc \in {"converted", "done"} => color.s = Zero /\ color.h = Zero
    /\ pc = "done" => ret = op.args

(***************************************************************************)
(* The strings of a BigColor of src/lib.rs: a colour is made from a        *)
(* string, its alpha may be set, and to_string or one of the string        *)
(* formatters is called on it                                              *)
(***************************************************************************)

\* The strings the colours to be written are made from
FormatStrings ==
    {"#ff0000", "rgb(18,110,245)", "cyan", "#000", "rgb(0, 0, 1)", "hsl(120, 50%, 50%)",
     "rgba(18,110,245,0.5)", "transparent"}

\* The alphas set on them, all in [0, 1]
FormatAlphas == {Zero, FDiv(One, Four), Half, One}

\* ColorFormat
Formats ==
    {"RGB", "PRGB", "HEX", "HEX3", "HEX6", "HEX8", "HSL", "HSV", "HSB", "LAB", "LCH",
     "OKLAB", "OKLCH", "CMYK", "NAME", "INVALID"}

\* to_string(format), where to_name() returns any of the names hex_names()
\* can hold for the colour
ToStringOf(format) ==
    /\ pc = "live"
    /\ \E name \in to_name(color) : ret' = to_string(color, format, name)
    /\ op' = Call("to_string", <<format>>)
    /\ pc' = "done"
    /\ UNCHANGED <<color, steps>>

ToRgbString ==
    /\ pc = "live"
    /\ ret' = to_rgb_string(color)
    /\ op' = Call("to_rgb_string", <<>>)
    /\ pc' = "done"
    /\ UNCHANGED <<color, steps>>

ToPercentageRgbString ==
    /\ pc = "live"
    /\ ret' = to_percentage_rgb_string(color)
    /\ op' = Call("to_percentage_rgb_string", <<>>)
    /\ pc' = "done"
    /\ UNCHANGED <<color, steps>>

ToHslString ==
    /\ pc = "live"
    /\ ret' = to_hsl_string(color)
    /\ op' = Call("to_hsl_string", <<>>)
    /\ pc' = "done"
    /\ UNCHANGED <<color, steps>>

ToHsvString ==
    /\ pc = "live"
    /\ ret' = to_hsv_string(color)
    /\ op' = Call("to_hsv_string", <<>>)
    /\ pc' = "done"
    /\ UNCHANGED <<color, steps>>

ToHsbString ==
    /\ pc = "live"
    /\ ret' = to_hsb_string(color)
    /\ op' = Call("to_hsb_string", <<>>)
    /\ pc' = "done"
    /\ UNCHANGED <<color, steps>>

ToCmykString ==
    /\ pc = "live"
    /\ ret' = to_cmyk_string(color)
    /\ op' = Call("to_cmyk_string", <<>>)
    /\ pc' = "done"
    /\ UNCHANGED <<color, steps>>

ToLabString ==
    /\ pc = "live"
    /\ ret' = to_lab_string(color)
    /\ op' = Call("to_lab_string", <<>>)
    /\ pc' = "done"
    /\ UNCHANGED <<color, steps>>

ToLchString ==
    /\ pc = "live"
    /\ ret' = to_lch_string(color)
    /\ op' = Call("to_lch_string", <<>>)
    /\ pc' = "done"
    /\ UNCHANGED <<color, steps>>

ToOklabString ==
    /\ pc = "live"
    /\ ret' = to_oklab_string(color)
    /\ op' = Call("to_oklab_string", <<>>)
    /\ pc' = "done"
    /\ UNCHANGED <<color, steps>>

ToOklchString ==
    /\ pc = "live"
    /\ ret' = to_oklch_string(color)
    /\ op' = Call("to_oklch_string", <<>>)
    /\ pc' = "done"
    /\ UNCHANGED <<color, steps>>

FormatNext ==
    \/ \E s \in FormatStrings : New(s)
    \/ \E value \in FormatAlphas : SetAlpha(value)
    \/ \E format \in {<<>>} \cup {<<f>> : f \in Formats} : ToStringOf(format)
    \/ ToRgbString
    \/ ToPercentageRgbString
    \/ ToHslString
    \/ ToHsvString
    \/ ToHsbString
    \/ ToCmykString
    \/ ToLabString
    \/ ToLchString
    \/ ToOklabString
    \/ ToOklchString

SpecFormat == Init /\ [][FormatNext]_vars

\* The number of characters c in s
RECURSIVE Count(_, _)
Count(s, c) == IF s = "" THEN 0 ELSE (IF Ch(s, 1) = c THEN 1 ELSE 0) + Count(Tail(s), c)

EndsWith(s, t) == Len(s) >= Len(t) /\ SubSeq(s, Len(s) - Len(t) + 1, Len(s)) = t

\* The string s has a component more than the three (four for cmyk) of the
\* colour: a fourth (fifth) after commas, or one after a slash
HasAlphaField(s) ==
    \/ Count(s, ",") = (IF SubSeq(s, 1, 4) = "cmyk" THEN 4 ELSE 3)
    \/ Count(s, "/") = 1

\* That component is the alpha a, or a rounded to two decimals
ShowsAlpha(s, a) ==
    /\ HasAlphaField(s)
    /\ \/ EndsWith(s, ", " \o display_f32(hundredths(a)) \o ")")
       \/ EndsWith(s, "/ " \o display_f32(a) \o ")")

\* The notations of the colour in the format f: the string of the formatter
\* of f, and for NAME the names of the colour (its hex string if it has none)
NotationsOf(c, f) ==
    IF f = "NAME"
    THEN IF to_name(c) = {<<>>} THEN {hex_string(c, FALSE)} ELSE {n[1] : n \in to_name(c)}
    ELSE {IF f = "RGB" THEN to_rgb_string(c)
          ELSE IF f = "PRGB" THEN to_percentage_rgb_string(c)
          ELSE IF f = "HEX3" THEN hex_string(c, TRUE)
          ELSE IF f = "HEX8" THEN to_hex8_string(c, FALSE)
          ELSE IF f = "HSL" THEN to_hsl_string(c)
          ELSE IF f = "HSV" THEN to_hsv_string(c)
          ELSE IF f = "HSB" THEN to_hsb_string(c)
          ELSE IF f = "LAB" THEN to_lab_string(c)
          ELSE IF f = "LCH" THEN to_lch_string(c)
          ELSE IF f = "OKLAB" THEN to_oklab_string(c)
          ELSE IF f = "OKLCH" THEN to_oklch_string(c)
          ELSE IF f = "CMYK" THEN to_cmyk_string(c)
          ELSE hex_string(c, FALSE)}

\* C11: to_string(Some(f)) is the notation of the format f for every alpha,
\* but for HEX, HEX3, HEX6 and NAME on a colour of alpha < 1, where it is the
\* rgba(...) string of to_rgb_string(), and "transparent" for NAME on a colour
\* of alpha 0.
C11_ToStringFormat ==
    pc = "done" /\ op.name = "to_string" /\ op.args[1] # <<>> /\ op.args[1] # <<"INVALID">> =>
        LET f == op.args[1][1]
        IN  IF f \in {"HEX", "HEX3", "HEX6", "NAME"} /\ FLt(color.oklch.alpha, One)
            THEN ret = (IF f = "NAME" /\ color.oklch.alpha = Zero THEN "transparent"
                        ELSE to_rgb_string(color))
            ELSE ret \in NotationsOf(color, f)

\* The string formatters
StringFormatters ==
    {"to_rgb_string", "to_percentage_rgb_string", "to_hsl_string", "to_hsv_string",
     "to_hsb_string", "to_cmyk_string", "to_lab_string", "to_lch_string", "to_oklab_string",
     "to_oklch_string"}

\* C12: the string of every string formatter has the alpha of the colour in
\* it when the alpha is below 1, and has no alpha in it when the alpha is 1.
C12_AlphaInStrings ==
    pc = "done" /\ op.name \in StringFormatters =>
        /\ FLt(color.oklch.alpha, One) => ShowsAlpha(ret, color.oklch.alpha)
        /\ color.oklch.alpha = One => ~HasAlphaField(ret)

(***************************************************************************)
(* Contrast: get_contrast_ratio, get_contrast_color and most_readable      *)
(* called on a colour made by BigColor::new                                *)
(***************************************************************************)

\* The base colours, and the colours contrast is measured against
ContrastStrings ==
    {"#fff", "#000", "#777", "#767676", "#ff0000", "#00ff00", "#126ef5", "#0a0a0a",
     "not-a-color"}
\* The intensities of get_contrast_color, in quarters
Quarters == {-4, 0, 1, 2, 3, 4, 8}
\* The base colours of most_readable
BaseStrings == {"#fff", "#000", "#777", "#126ef5"}
\* The candidates of most_readable; "#777" and "#777777" are one colour
CandidateStrings == {"#777", "#777777", "#767676", "#000"}
\* The candidate lists: every list of at most two candidates
CandidateLists ==
    {<<>>} \cup {<<new(a)>> : a \in CandidateStrings}
           \cup {<<new(a), new(b)>> : a \in CandidateStrings, b \in CandidateStrings}
\* Option<MostReadableArgs>
ReadableArgs ==
    {<<>>} \cup {<<[include_fallback_colors |-> i, wcag2 |-> [level |-> l, size |-> z]]>> :
                    i \in BOOLEAN, l \in {"AA", "AAA"}, z \in {"Small", "Large"}}

GetContrastRatio(other) ==
    /\ pc = "live"
    /\ ret' = get_contrast_ratio(color, other)
    /\ op' = Call("get_contrast_ratio", <<other>>)
    /\ pc' = "done"
    /\ UNCHANGED <<color, steps>>

GetContrastColor(intensity) ==
    /\ pc = "live"
    /\ ret' = get_contrast_color(color, intensity)
    /\ op' = Call("get_contrast_color", <<intensity>>)
    /\ pc' = "done"
    /\ UNCHANGED <<color, steps>>

MostReadable(color_list, args) ==
    /\ pc = "live"
    /\ ret' = most_readable(color, color_list, args)
    /\ op' = Call("most_readable", <<color_list, args>>)
    /\ pc' = "done"
    /\ UNCHANGED <<color, steps>>

ContrastNext ==
    \/ \E s \in ContrastStrings : New(s)
    \/ \E s \in ContrastStrings : GetContrastRatio(new(s))
    \/ \E n \in Quarters : GetContrastColor(FDiv(FromInt(n), Four))

SpecContrast == Init /\ [][ContrastNext]_vars

\* most_readable called on a colour made by BigColor::new
ReadableNext ==
    \/ \E s \in BaseStrings : New(s)
    \/ \E color_list \in CandidateLists, args \in ReadableArgs : MostReadable(color_list, args)

SpecReadable == Init /\ [][ReadableNext]_vars

\* C14: the contrast ratio of two colours is the same in both orders and
\* lies in [1, 21]; of a colour with itself it is 1; of black and white it
\* is 21 within 0.01.
C14_ContrastBounds ==
    pc = "done" /\ op.name = "get_contrast_ratio" =>
        LET other == op.args[1]
        IN  /\ ret = get_contrast_ratio(other, color)
            /\ FLe(One, ret) /\ FLe(ret, FromInt(21))
            /\ to_rgb(other) = to_rgb(color) => ret = One
            /\ to_rgb(color) = <<0, 0, 0, One>> /\ to_rgb(other) = <<255, 255, 255, One>> =>
                   FLe(FAbs(FSub(ret, FromInt(21))), F(10737418, -30))

C14_Witness ==
    /\ pc = "done" /\ op.name = "get_contrast_ratio"
    /\ to_rgb(color) = <<0, 0, 0, One>> /\ to_rgb(op.args[1]) = <<255, 255, 255, One>>
    /\ FLt(FromInt(20), ret)

\* C19: the contrast colour is a valid opaque grey whose channels are
\* trunc(128 (1 - t) + E t), t the intensity clamped into [0, 1], E 0 for a
\* base of lightness >= 0.5 and 255 for another; intensity 1 gives black for
\* white and white for black, intensity 0 gives (128, 128, 128).
C19_ContrastColor ==
    pc = "done" /\ op.name = "get_contrast_color" =>
        \A n \in Quarters : op.args[1] = FDiv(FromInt(n), Four) =>
            LET t == IF n < 0 THEN 0 ELSE IF n > 4 THEN 4 ELSE n
                E == IF FLe(Half, color.oklch.l) THEN 0 ELSE 255
                v == (128 * (4 - t) + E * t) \div 4
            IN  /\ ret.ok
                /\ to_rgb(ret) = <<v, v, v, One>>
                /\ n = 4 /\ to_rgb(color) = <<255, 255, 255, One>> => to_rgb(ret) = <<0, 0, 0, One>>
                /\ n = 4 /\ to_rgb(color) = <<0, 0, 0, One>> =>
                       to_rgb(ret) = <<255, 255, 255, One>>
                /\ n = 0 => to_rgb(ret) = <<128, 128, 128, One>>

C19_Witness ==
    /\ pc = "done" /\ op.name = "get_contrast_color"
    /\ op.args[1] = FDiv(One, Four) /\ to_rgb(color) = <<0, 0, 0, One>>
    /\ to_rgb(ret) = <<159, 159, 159, One>>

\* The threshold of a WCAG level and size
Threshold(wcag2) ==
    IF wcag2 = [level |-> "AA", size |-> "Large"] THEN Three
    ELSE IF wcag2 = [level |-> "AAA", size |-> "Small"] THEN FromInt(7)
    ELSE F(9437184, -21)

\* The first index of the highest of the ratios
FirstBest(ratio) ==
    CHOOSE i \in 1..Len(ratio) :
        /\ \A j \in 1..Len(ratio) : FLe(ratio[j], ratio[i])
        /\ \A j \in 1..(i - 1) : FLt(ratio[j], ratio[i])

\* C20: most_readable returns the first candidate of the highest ratio
\* against the base; when include_fallback_colors is set and that candidate
\* is below the threshold, the one of white and black of the higher ratio;
\* black for no candidates; and it calls itself at most once.
C20_MostReadable ==
    pc = "done" /\ op.name = "most_readable" =>
        LET list == op.args[1]
            args == unwrap_or(op.args[2], MostReadableArgsDefault)
        IN  /\ ret.calls - 1 <= 1
            /\ IF list = <<>> THEN to_rgb(ret.color) = <<0, 0, 0, One>>
               ELSE Then([i \in 1..Len(list) |-> get_contrast_ratio(color, list[i])],
                         LAMBDA ratio :
                    IF args.include_fallback_colors
                       /\ FLt(ratio[FirstBest(ratio)], Threshold(args.wcag2))
                    THEN Then(<<get_contrast_ratio(color, new("#fff")),
                                get_contrast_ratio(color, new("#000"))>>, LAMBDA wb :
                             /\ FLt(wb[2], wb[1]) => to_rgb(ret.color) = <<255, 255, 255, One>>
                             /\ FLt(wb[1], wb[2]) => to_rgb(ret.color) = <<0, 0, 0, One>>)
                    ELSE ret.color = list[FirstBest(ratio)])

C20_Witness ==
    /\ pc = "done" /\ op.name = "most_readable"
    /\ op.args[1] = <<new("#777"), new("#777777")>>
    /\ op.args[2] # <<>> /\ op.args[2][1].include_fallback_colors
    /\ to_rgb(color) = <<255, 255, 255, One>>
    /\ ret.calls = 2 /\ to_rgb(ret.color) = <<0, 0, 0, One>>

(***************************************************************************)
(* The mutators, each called once on a colour with a range of amounts      *)
(***************************************************************************)

\* The amounts of lighten, brighten, darken, saturate and desaturate
MutateAmounts == {FromInt(-200), FromInt(10), FromInt(200), NaN}
\* The amounts of spin
MutateTurns == {FromInt(-400), Zero, FromInt(90), FromInt(400)}

MutateNext ==
    \/ \E s \in Strings : New(s)
    \/ \E a \in Alphas : FromRgb(18, 110, 245, a)
    \/ \E h \in Hues, a \in Alphas : FromOklch(Half, F(13421773, -27), h, a)
    \/ \E value \in Alphas : SetAlpha(value)
    \/ \E amount \in MutateAmounts : Lighten(amount)
    \/ \E amount \in MutateAmounts : Brighten(amount)
    \/ \E amount \in MutateAmounts : Darken(amount)
    \/ \E amount \in MutateAmounts : Desaturate(amount)
    \/ \E amount \in MutateAmounts : Saturate(amount)
    \/ Greyscale
    \/ \E amount \in MutateTurns : Spin(amount)

SpecMutate == Init /\ [][MutateNext]_vars

\* The step changes nothing of the colour but the field f of its OKLCH value
OnlyField(f) == color' = [color EXCEPT !.oklch[f] = color'.oklch[f]]

\* The step leaves alpha, format, validity and original input as they were
KeepsIdentity ==
    /\ color'.oklch.alpha = color.oklch.alpha
    /\ color'.format = color.format
    /\ color'.ok = color.ok
    /\ color'.original_input = color.original_input

\* C15: lighten and darken change only the lightness, and leave it in
\* [0, 1]; saturate and desaturate change only the chroma, desaturate to no
\* less than 0; spin changes only the hue; greyscale only sets the chroma to
\* 0; no mutator, brighten included, changes alpha, format, validity or the
\* original input.
C15_MutatorFrame ==
    [][/\ (\E amount \in MutateAmounts : Lighten(amount) \/ Darken(amount)) =>
              OnlyField("l") /\ FLe(Zero, color'.oklch.l) /\ FLe(color'.oklch.l, One)
       /\ (\E amount \in MutateAmounts : Saturate(amount) \/ Desaturate(amount)) =>
              OnlyField("c")
       /\ (\E amount \in MutateAmounts : Desaturate(amount)) => FLe(Zero, color'.oklch.c)
       /\ (\E amount \in MutateTurns : Spin(amount)) => OnlyField("h")
       /\ Greyscale => OnlyField("c") /\ color'.oklch.c = Zero
       /\ (\/ \E amount \in MutateAmounts :
                  \/ Lighten(amount) \/ Brighten(amount) \/ Darken(amount)
                  \/ Saturate(amount) \/ Desaturate(amount)
           \/ \E amount \in MutateTurns : Spin(amount)
           \/ Greyscale) => KeepsIdentity]_vars

\* A colour lightened beyond 1 and held at 1, with an alpha that is not 1
C15_Witness ==
    /\ steps = 1 /\ op.name = "from_rgb"
    /\ color.oklch.l = One /\ color.oklch.alpha = Half
    /\ color = lighten(from_rgb(18, 110, 245, Half), FromInt(200))

(***************************************************************************)
(* BigColor::new on a string in other letter case and with whitespace      *)
(* around it                                                               *)
(***************************************************************************)

\* The strings written in lower case and without whitespace around them
CaseStrings ==
    {"#ff0000", "#abcdef12", "#fab", "rgb(18,110,245)", "rgba(18,110,245,0.5)",
     "hsl(120, 50%, 50%)", "hsva(120, 50%, 50%, 0.25)", "cyan", "transparent", "not-a-color"}
\* The whitespace put before and after a string
Pads == {"", " ", "\t\n"}

\* s with its letters in upper case
RECURSIVE UpperCased(_)
UpperCased(s) ==
    IF s = "" THEN ""
    ELSE LET k == IndexOf(Lower, Ch(s, 1), 1)
         IN  (IF k = 0 THEN Ch(s, 1) ELSE Ch(Upper, k)) \o UpperCased(Tail(s))

\* s with every second letter from the first in upper case
RECURSIVE MixedCased(_)
MixedCased(s) ==
    IF Len(s) < 2 THEN UpperCased(s)
    ELSE UpperCased(Ch(s, 1)) \o Ch(s, 2) \o MixedCased(SubSeq(s, 3, Len(s)))

\* The strings got from s by changing letter case and adding whitespace
Variants(s) ==
    {pre \o t \o post : t \in {s, UpperCased(s), MixedCased(s)}, pre \in Pads, post \in Pads}

GetOriginalInput ==
    /\ pc = "live"
    /\ ret' = get_original_input(color)
    /\ pc' = "done"
    /\ UNCHANGED <<color, op, steps>>

CaseNext ==
    \/ \E s \in CaseStrings : \E v \in Variants(s) : New(v)
    \/ GetOriginalInput

SpecCase == Init /\ [][CaseNext]_vars

\* C16: a string S got from a string s that BigColor::new parses, by
\* changing letter case or adding whitespace around it, gives a valid colour
\* of the same format and the same OKLCH value and alpha as s, and
\* get_original_input() returns S.
C16_CaseAndWhitespace ==
    pc \in {"live", "done"} /\ op.name = "new" =>
        \A s \in CaseStrings : op.args[1] \in Variants(s) /\ is_valid(new(s)) =>
            /\ is_valid(color)
            /\ color.format = new(s).format
            /\ color.oklch = new(s).oklch
            /\ color.original_input = op.args[1]
            /\ pc = "done" => ret = op.args[1]

C16_Witness ==
    /\ pc = "done" /\ op = Call("new", <<"\t\nRgBa(18,110,245,0.5) ">>)
    /\ ret = "\t\nRgBa(18,110,245,0.5) "
    /\ is_valid(color) /\ color.oklch = new("rgba(18,110,245,0.5)").oklch

(***************************************************************************)
(* src/parser/mod.rs: parse on functional notations with a component that  *)
(* is no number, and parse_hue_or_angle on numbers with units              *)
(***************************************************************************)

\* The names of the functional notations
FunctionNames == {"rgb", "rgba", "hsl", "hsla", "hwb", "hsv"}
\* Text that is no number
NonNumbers == {"abc", "x", "1x"}
\* Arguments that the function takes
GoodArgs(fname) ==
    IF fname \in {"rgb", "rgba"} THEN <<"120", "50", "50">> ELSE <<"120", "50%", "50%">>

\* The notation fname(args), the arguments separated by commas
Notation(fname, args) == fname \o "(" \o args[1] \o "," \o args[2] \o "," \o args[3] \o ")"

\* The notations with one argument replaced by text that is no number
NonNumericStrings ==
    {Notation(fname, [GoodArgs(fname) EXCEPT ![i] = t]) :
        fname \in FunctionNames, i \in 1..3, t \in NonNumbers}
    \cup {"rgb(abc,0,0)", "hsl(x,50%,50%)"}

\* The numbers of an angle
AngleNumbers ==
    {"0", "90", "100", "-127", "+120", "360", "400", "-400", "0.25", "-0.25", "1.5", "-90"}
\* The units of an angle
AngleUnits == {"", "deg", "grad", "rad", "turn"}

TypedParse(s) ==
    /\ pc = "start"
    /\ ret' = parse(s)
    /\ op' = Call("parse", <<s>>)
    /\ pc' = "done"
    /\ UNCHANGED <<color, steps>>

ParseHueOrAngle(s) ==
    /\ pc = "start"
    /\ ret' = parse_hue_or_angle(s)
    /\ op' = Call("parse_hue_or_angle", <<s>>)
    /\ pc' = "done"
    /\ UNCHANGED <<color, steps>>

TypedNext ==
    \/ \E s \in NonNumericStrings \cup {Notation(fname, GoodArgs(fname)) : fname \in FunctionNames} :
           TypedParse(s)
    \/ \E n \in AngleNumbers, u \in AngleUnits : ParseHueOrAngle(n \o u)

SpecTyped == Init /\ [][TypedNext]_vars

\* C17: parse of a functional notation with a component that is text and no
\* number fails with InvalidNumberFormat.
C17_NonNumericComponent ==
    pc = "done" /\ op.name = "parse" /\ op.args[1] \in NonNumericStrings =>
        ret = Err("InvalidNumberFormat")

\* The degrees of the number v in the unit u
Degrees(v, u) ==
    IF u = "deg" THEN FRem(v, F360)
    ELSE IF u = "grad" THEN FMul(v, F(15099494, -24))
    ELSE IF u = "rad" THEN FDiv(FMul(v, FromInt(180)), F(13176795, -22))
    ELSE IF u = "turn" THEN FMul(v, F360)
    ELSE v

\* C18: parse_hue_or_angle is Ok of the degrees of its input: v for a plain
\* number, v modulo 360 with the sign of v for deg, v * 0.9 for grad,
\* v * 180 / pi for rad and v * 360 for turn; 90 for "100grad" and for
\* "0.25turn", -90 for "-0.25turn".
C18_AngleUnits ==
    pc = "done" /\ op.name = "parse_hue_or_angle" =>
        /\ \A n \in AngleNumbers, u \in AngleUnits :
               op.args[1] = n \o u => ret = <<Degrees(parse_f32(n)[1], u)>>
        /\ op.args[1] \in {"100grad", "0.25turn"} => ret = <<FromInt(90)>>
        /\ op.args[1] = "-0.25turn" => ret = <<FromInt(-90)>>

(***************************************************************************)
(* rgb_to_cmyk on channels                                                 *)
(***************************************************************************)

\* The channel values: the ends, their neighbours, the middle and thirds
CmykChannels == {0, 1, 2, 51, 85, 127, 128, 170, 254, 255}

RgbToCmyk(r, g, b) ==
    /\ pc = "start"
    /\ ret' = rgb_to_cmyk(r, g, b, One)
    /\ op' = Call("rgb_to_cmyk", <<r, g, b>>)
    /\ pc' = "done"
    /\ UNCHANGED <<color, steps>>

CmykNext == \E r \in CmykChannels, g \in CmykChannels, b \in CmykChannels : RgbToCmyk(r, g, b)

SpecCmyk == Init /\ [][CmykNext]_vars

\* The largest of three numbers
Max3(x, y, z) == IF x >= y /\ x >= z THEN x ELSE IF y >= z THEN y ELSE z

\* C21: rgb_to_cmyk divides by 1 - k only where it is not zero, and its c,
\* m, y and k are numbers in [0, 100]; of black they are 0, 0, 0 and 100.
C21_CmykRange ==
    pc = "done" /\ op.name = "rgb_to_cmyk" =>
        LET k == FSub(One, FDiv(FromInt(Max3(op.args[1], op.args[2], op.args[3])), F255))
        IN  /\ ~FEq(k, One) => ~FEq(FSub(One, k), Zero)
            /\ \A v \in {ret.c, ret.m, ret.y, ret.k} :
                   ~IsNaN(v) /\ FLe(Zero, v) /\ FLe(v, F100)
            /\ op.args = <<0, 0, 0>> =>
                   ret.k = F100 /\ ret.c = Zero /\ ret.m = Zero /\ ret.y = Zero

C21_Witness ==
    /\ pc = "done" /\ op = Call("rgb_to_cmyk", <<0, 0, 0>>)
    /\ ret.k = F100 /\ ret.c = Zero

(***************************************************************************)
(* constrain_angle on angles                                               *)
(***************************************************************************)

\* The angles: multiples of 15 degrees, both signs of a few fractions, and
\* a negative angle too small to change 360.0 when added to it
Angles ==
    {FromInt(15 * n) : n \in (0 - 50)..50}
    \cup {Half, FNeg(Half), FDiv(One, FromInt(10)), FNeg(FDiv(One, FromInt(10))),
          F(-8388608, -60)}

ConstrainAngle(angle) ==
    /\ pc = "start"
    /\ ret' = constrain_angle(angle)
    /\ op' = Call("constrain_angle", <<angle>>)
    /\ pc' = "done"
    /\ UNCHANGED <<color, steps>>

AngleNext == \E angle \in Angles : ConstrainAngle(angle)

SpecAngle == Init /\ [][AngleNext]_vars

\* C22: constrain_angle of an angle lies in [0, 360), and is the same for
\* the angle and for the angle plus 360.
C22_AngleRange ==
    pc = "done" /\ op.name = "constrain_angle" =>
        /\ FLe(Zero, ret) /\ FLt(ret, F360)
        /\ ret = constrain_angle(FAdd(op.args[1], F360))

(***************************************************************************)
(* The named colours: BigColor::new on every name of names(), then         *)
(* to_name() and to_string(Some(NAME))                                     *)
(***************************************************************************)

\* to_name(): any of the names that hex_names() can hold for the colour
ToName ==
    /\ pc = "live"
    /\ \E name \in to_name(color) : ret' = name
    /\ op' = Call("to_name", <<>>)
    /\ pc' = "done"
    /\ UNCHANGED <<color, steps>>

NameNext ==
    \/ \E p \in names : New(p[1])
    \/ ToName
    \/ ToStringOf(<<"NAME">>)

SpecName == Init /\ [][NameNext]_vars

\* C23: to_name(), and to_string of the format NAME, return one value for a
\* colour, whatever the order in which names() is iterated.
C23_NameDeterministic ==
    /\ pc = "done" /\ op.name = "to_name" => \A name \in to_name(color) : ret = name
    /\ pc = "done" /\ op.name = "to_string" =>
           \A name \in to_name(color) : ret = to_string(color, <<"NAME">>, name)

\* The bytes of a hex string of three or of six digits
HexTriple(hex) ==
    IF Len(hex) = 3
    THEN <<17 * hex_u8(Ch(hex, 1)), 17 * hex_u8(Ch(hex, 2)), 17 * hex_u8(Ch(hex, 3))>>
    ELSE <<hex_u8(SubSeq(hex, 1, 2)), hex_u8(SubSeq(hex, 3, 4)), hex_u8(SubSeq(hex, 5, 6))>>

\* C27: new of a name of the table is valid, of format NAME and of the
\* bytes of the name's hex string; to_name() of it is never None, and is a
\* name of the same bytes.
C27_NameRoundTrip ==
    pc \in {"live", "done"} /\ op.name \in {"new", "to_name"} =>
        \A p \in names : p[1] = color.original_input =>
            /\ is_valid(color) /\ color.format = "NAME"
            /\ SubSeq(to_rgb(color), 1, 3) = HexTriple(p[2])
            /\ <<>> \notin to_name(color)
            /\ pc = "done" =>
                   /\ ret # <<>>
                   /\ \E q \in names : q[1] = ret[1] /\ HexTriple(q[2]) = HexTriple(p[2])

(***************************************************************************)
(* bound_01 on the channel values, and to_percentage_rgb on greys          *)
(***************************************************************************)

\* The greys whose percentages are asked for
PercentGreys == {0, 1, 2, 50, 100, 101, 128, 254, 255}

Bound01(n) ==
    /\ pc = "start"
    /\ ret' = bound_01(FromInt(n), F255)
    /\ op' = Call("bound_01", <<n>>)
    /\ pc' = "done"
    /\ UNCHANGED <<color, steps>>

ToPercentageRgb ==
    /\ pc = "live"
    /\ ret' = to_percentage_rgb(color)
    /\ op' = Call("to_percentage_rgb", op.args)
    /\ pc' = "done"
    /\ UNCHANGED <<color, steps>>

BoundNext ==
    \/ \E n \in 0..255 : Bound01(n)
    \/ \E c \in PercentGreys : FromRgb(c, c, c, One)
    \/ ToPercentageRgb

SpecBound == Init /\ [][BoundNext]_vars

\* C24: bound_01(n, 255) is n / 255 for every n of 0..255, so 0 for 0, 1
\* for 255 and never less than for n - 1; and every channel of
\* to_percentage_rgb() is round(100 c / 255) for the channel c.
C24_Bound01 ==
    /\ pc = "done" /\ op.name = "bound_01" =>
           LET n == op.args[1]
           IN  /\ ret = FDiv(FromInt(n), F255)
               /\ n = 0 => ret = Zero
               /\ n = 255 => ret = One
               /\ n > 0 => FLe(bound_01(FromInt(n - 1), F255), ret)
    /\ pc = "done" /\ op.name = "to_percentage_rgb" =>
           \A i \in 1..3 : ret[i] = FromInt((200 * op.args[i] + 255) \div 510)

(***************************************************************************)
(* from_rgb with every kind of alpha argument, and mix                     *)
(***************************************************************************)

\* The alpha arguments: inside [0, 1], negative, above 1 with and without
\* decimals, NaN and infinite
MixAlphas == {Half, One, FNeg(Half), Two, FDiv(FromInt(25), Two), NaN, PosInf}
\* The channels of from_rgb
MixChannels == {<<0, 0, 0>>, <<18, 110, 245>>, <<255, 255, 255>>}
\* The second colour of mix
MixStrings == {"#000", "#fff", "rgba(18,110,245,0.5)"}
\* Option<f32>: the amount of mix
MixAmounts ==
    {<<>>} \cup {<<FromInt(n)>> : n \in {-50, 0, 25, 100, 150, 300}} \cup {<<NaN>>}

Mix(other, amount) ==
    /\ pc = "live"
    /\ ret' = mix(color, other, amount)
    /\ op' = Call("mix", <<other, amount>>)
    /\ pc' = "done"
    /\ UNCHANGED <<color, steps>>

MixNext ==
    \/ \E c \in MixChannels, a \in MixAlphas : FromRgb(c[1], c[2], c[3], a)
    \/ \E s \in MixStrings, amount \in MixAmounts : Mix(new(s), amount)

SpecMix == Init /\ [][MixNext]_vars

\* C25: from_rgb(r, g, b, a) is a valid colour whose channels are within 1
\* of r, g and b for every a, with alpha 1.0 for an a that is NaN, negative
\* or above 1; and mix returns a valid colour for every amount.
C25_FromRgbAlpha ==
    /\ pc = "live" /\ op.name = "from_rgb" =>
           /\ is_valid(color)
           /\ \A i \in 1..3 : to_rgb(color)[i] - op.args[i] \in -1..1
           /\ IsNaN(op.args[4]) \/ FLt(op.args[4], Zero) \/ FLt(One, op.args[4]) =>
                  color.oklch.alpha = One
    /\ pc = "done" /\ op.name = "mix" => is_valid(ret)

(***************************************************************************)
(* rgb(R, G, B) strings in the parser of src/parse.rs and in the parser of *)
(* src/parser/mod.rs                                                       *)
(***************************************************************************)

\* The components: bytes, and integers above 255
RgbComponents == {0, 1, 128, 255, 256, 300}

\* The string rgb(R, G, B)
RgbString(c) == "rgb(" \o ToString(c[1]) \o ", " \o ToString(c[2]) \o ", " \o ToString(c[3]) \o ")"

RgbStrings == {RgbString(<<r, g, b>>) : r \in RgbComponents, g \in RgbComponents, b \in RgbComponents}

\* input_to_rgb of src/parse.rs on a string
RegexParse(s) ==
    /\ pc = "start"
    /\ ret' = input_to_rgb(s)
    /\ op' = Call("input_to_rgb", <<s>>)
    /\ pc' = "done"
    /\ UNCHANGED <<color, steps>>

RgbNext == \E s \in RgbStrings : RegexParse(s) \/ TypedParse(s)

SpecRgb == Init /\ [][RgbNext]_vars

\* C26: for rgb(R, G, B) with integers R, G, B >= 0 the two parsers give
\* the same bytes, and 255 for a component above 255.
C26_RgbParsersAgree ==
    pc = "done" /\ op.name \in {"input_to_rgb", "parse"} =>
        LET regex == input_to_rgb(op.args[1])
            typed == parse(op.args[1])
        IN  \A r \in RgbComponents, g \in RgbComponents, b \in RgbComponents :
                op.args[1] = RgbString(<<r, g, b>>) =>
                    /\ regex.ok /\ typed.ok
                    /\ ret = (IF op.name = "parse" THEN typed ELSE regex)
                    /\ <<regex.r, regex.g, regex.b>> = SubSeq(to_rgba8(typed), 1, 3)
                    /\ r > 255 => regex.r = 255 /\ to_rgba8(typed)[1] = 255
                    /\ g > 255 => regex.g = 255 /\ to_rgba8(typed)[2] = 255
                    /\ b > 255 => regex.b = 255 /\ to_rgba8(typed)[3] = 255

(***************************************************************************)
(* clone_color of a colour made by BigColor::new, after set_alpha or not   *)
(***************************************************************************)

\* Strings of the formats, and one that is no colour
CloneStrings ==
    {"#ff0000", "#f00", "#ff000080", "#ff0000ff", "rgb(18,110,245)", "rgba(18,110,245,0.5)",
     "rgb(10%, 20%, 30%)", "hsl(120, 50%, 50%)", "hsv(120, 50%, 50%)", "cyan", "transparent",
     "lch(50 20 30)", "oklch(50% 0.1 120)", "cmyk(50%, 0%, 25%, 10%)", "not-a-color"}

CloneColor ==
    /\ pc = "live"
    /\ \E name \in to_name(color) : ret' = clone_color(color, name)
    /\ op' = Call("clone_color", op.args)
    /\ pc' = "done"
    /\ UNCHANGED <<color, steps>>

CloneNext ==
    \/ \E s \in CloneStrings : New(s)
    \/ \E value \in FormatAlphas : SetAlpha(value)
    \/ CloneColor

SpecClone == Init /\ [][CloneNext]_vars

\* C28: the colour of clone_color() has the validity and the format of the
\* colour it was called on: invalid for an invalid one, and HEX8 or NAME for
\* one of that format, whatever its alpha.
C28_CloneKeepsFormat ==
    pc = "done" /\ op.name = "clone_color" =>
        /\ is_valid(ret) = is_valid(color)
        /\ ret.format = color.format

(***************************************************************************)
(* Validity and format over the life of a BigColor                         *)
(***************************************************************************)

\* The scheme generators
Schemes ==
    {"analogous", "complement", "monochromatic", "split_complement", "triad", "tetrad", "polyad"}

\* is_valid() is true exactly when get_format() is not INVALID
ValidIffFormat(c) == is_valid(c) <=> c.format # "INVALID"

\* C29: in every state of a colour, after any constructor, mutators,
\* set_alpha and scheme generators, and in every colour a scheme generator
\* returns, is_valid() is true if and only if the format is not INVALID; and
\* no step after the construction changes the validity or the format.
C29_ValidityAndFormat ==
    /\ [](/\ ValidIffFormat(color)
          /\ pc = "done" /\ op.name \in Schemes => \A i \in DOMAIN ret : ValidIffFormat(ret[i]))
    /\ [][pc # "start" => is_valid(color') = is_valid(color) /\ color'.format = color.format]_vars

\* An invalid colour that lighten changed
C29_Witness ==
    /\ pc = "live" /\ steps = 1 /\ op = Call("new", <<"not-a-color">>)
    /\ ~is_valid(color) /\ color.format = "INVALID"
    /\ color.oklch.l # Zero

(***************************************************************************)
(* Gradient of src/gradient.rs: made of colour stops, then asked for the   *)
(* colour at a position.  The variable color holds the gradient.           *)
(***************************************************************************)

\* SolidColor::new
SolidColor(r, g, b, a) == [r |-> r, g |-> g, b |-> b, a |-> a]

\* ColorStop::new: the position is clamped into [0, 1]
ColorStop(stop_color, position) ==
    [color |-> stop_color, position |-> FClamp(position, Zero, One)]

GradientExtend == {"Pad", "Repeat", "Reflect"}

\* Gradient::linear; the geometry fields are left out, color_at reads none
linear(stops, extend) == [gradient_type |-> "Linear", stops |-> stops, extend |-> extend]

\* The first i in 0..len-2 with stops[i].position <= position <=
\* stops[i + 1].position, as the loop of color_at finds it; 0 when none
RECURSIVE FindStops(_, _, _)
FindStops(stops, position, i) ==
    IF i > Len(stops) - 1 THEN 0
    ELSE IF FLe(stops[i].position, position) /\ FLe(position, stops[i + 1].position) THEN i
    ELSE FindStops(stops, position, i + 1)

\* lower * (1.0 - factor) + upper * factor on the four channels
Interpolate(lower, upper, factor) ==
    LET ch(l, u) == FAdd(FMul(l, FSub(One, factor)), FMul(u, factor))
    IN  SolidColor(ch(lower.r, upper.r), ch(lower.g, upper.g),
                   ch(lower.b, upper.b), ch(lower.a, upper.a))

\* (position - lower.position) / range, 0.0 when the range is 0.0
Factor(lower_stop, upper_stop, position) ==
    LET range == FSub(upper_stop.position, lower_stop.position)
    IN  IF FEq(range, Zero) THEN Zero ELSE FDiv(FSub(position, lower_stop.position), range)

color_at(self, position) ==
    IF self.stops = <<>> THEN SolidColor(Zero, Zero, Zero, Zero)
    ELSE IF Len(self.stops) = 1 THEN self.stops[1].color
    ELSE LET i == FindStops(self.stops, position, 1)
             lower_stop == IF i = 0 THEN self.stops[1] ELSE self.stops[i]
             upper_stop == IF i = 0 THEN self.stops[Len(self.stops)] ELSE self.stops[i + 1]
         IN  Interpolate(lower_stop.color, upper_stop.color,
                         Factor(lower_stop, upper_stop, position))

\* The colours of the stops: black, white and a translucent blue-grey
StopColors ==
    {SolidColor(Zero, Zero, Zero, One), SolidColor(One, One, One, One),
     SolidColor(FDiv(One, Four), Half, FDiv(Three, Four), Half)}

\* The positions stops are made with: two outside [0, 1]
StopPositions == {FNeg(Half), FDiv(One, Four), FDiv(Three, Two)}

\* The stops a gradient is made of: none to three
StopLists ==
    LET stop == {ColorStop(c, p) : c \in StopColors, p \in StopPositions}
    IN  {<<>>} \cup {<<x>> : x \in stop} \cup {<<x, y>> : x \in stop, y \in stop}
        \cup {<<x, y, z>> : x \in stop, y \in stop, z \in stop}

\* The positions colours are asked at
AtPositions ==
    {FNeg(Half), Zero, FDiv(One, FromInt(8)), FDiv(One, Four), Half, FDiv(Three, Four),
     One, FDiv(Three, Two), NaN}

Linear(stops, extend) ==
    /\ pc = "start"
    /\ color' = linear(stops, extend)
    /\ op' = Call("linear", <<stops, extend>>)
    /\ pc' = "live"
    /\ UNCHANGED <<ret, steps>>

ColorAt(position) ==
    /\ pc = "live"
    /\ ret' = color_at(color, position)
    /\ op' = Call("color_at", <<position>>)
    /\ pc' = "done"
    /\ UNCHANGED <<color, steps>>

GradientNext ==
    \/ \E stops \in StopLists, extend \in GradientExtend : Linear(stops, extend)
    \/ \E position \in AtPositions : ColorAt(position)

SpecGradient == Init /\ [][GradientNext]_vars

\* The stops are in increasing position order
Increasing(stops) ==
    \A i \in 1..(Len(stops) - 1) : FLt(stops[i].position, stops[i + 1].position)

\* x lies within the range the values of the set span
Spanned(x, values) ==
    /\ \E v \in values : FLe(v, x)
    /\ \E v \in values : FLe(x, v)

\* C30: for a gradient of two or more stops in increasing position order,
\* color_at(p) is the linear interpolation of two adjacent stops enclosing
\* p, the first stop's colour for p before the first stop and the last
\* stop's colour for p after the last stop; and every channel of the result
\* lies within the range that channel spans over the stop colours.
C30_ColorAt ==
    pc = "done" /\ op.name = "color_at" /\ Len(color.stops) >= 2
        /\ Increasing(color.stops) /\ ~IsNaN(op.args[1]) =>
    LET stops == color.stops
        p == op.args[1]
        n == Len(stops)
    IN  /\ FLt(p, stops[1].position) => ret = stops[1].color
        /\ FLt(stops[n].position, p) => ret = stops[n].color
        /\ FLe(stops[1].position, p) /\ FLe(p, stops[n].position) =>
               \E i \in 1..(n - 1) :
                   /\ FLe(stops[i].position, p) /\ FLe(p, stops[i + 1].position)
                   /\ ret = Interpolate(stops[i].color, stops[i + 1].color,
                                        FDiv(FSub(p, stops[i].position),
                                             FSub(stops[i + 1].position, stops[i].position)))
        /\ Spanned(ret.r, {stops[i].color.r : i \in 1..n})
        /\ Spanned(ret.g, {stops[i].color.g : i \in 1..n})
        /\ Spanned(ret.b, {stops[i].color.b : i \in 1..n})
        /\ Spanned(ret.a, {stops[i].color.a : i \in 1..n})

=============================================================================
